---- MODULE Spec2Model ----
(***************************************************************************)
(* Contest model of Hydro (model/contest.ts): the rule registry (acm, oi,  *)
(* homework), the journal aggregators, ranking, and the status-store       *)
(* protocol (attend, updateStatus, recalcStatus, getScoreboard).           *)
(***************************************************************************)
EXTENDS Integers, Sequences, FiniteSets, TLC

(* ------------------------------ bounds -------------------------------- *)
NumUsers == 2
NumUpdates == 2
NumAttends == 2
MaxTime == 2
MaxDocs == 3
MaxScore == 2
MaxAccept == 2
MaxJournal == 3
NumRecalcs == 2

Uids == 1..NumUsers
UpdCalls == 1..NumUpdates
AttCalls == 1..NumAttends

(* ------------------------- JavaScript values -------------------------- *)
Num(n) == [t |-> "number", v |-> n]
NaN == [t |-> "NaN", v |-> 0]
undefined == [t |-> "undefined", v |-> 0]

\* a === b on numbers / undefined: NaN equals nothing, undefined equals undefined
StrictEq(a, b) == a.t # "NaN" /\ a = b

\* a + b where a is a number or NaN and b a number, NaN or undefined
JsAdd(a, b) == IF a.t = "number" /\ b.t = "number" THEN Num(a.v + b.v) ELSE NaN

\* k * b for a number k
JsMul(k, b) == IF b.t = "number" THEN Num(k * b.v) ELSE NaN

Str(s) == [t |-> "string", v |-> s]
Null == [t |-> "null", v |-> 0]

\* the values `a || b` passes over: undefined, null, NaN, 0 and ''
Falsy(a) ==
    \/ a.t \in {"undefined", "null", "NaN"}
    \/ a.t = "number" /\ a.v = 0
    \/ a.t = "string" /\ a.v = ""

\* a || b
JsOr(a, b) == IF Falsy(a) THEN b ELSE a

\* 'template'.format(parts): the text is kept as its parts
Format(parts) == [t |-> "format", v |-> parts]

(* ------------------------------ contest ------------------------------- *)
RuleNames == {"acm", "oi", "homework"}

\* the one contest of the model: problem 1 is a contest problem, problem 2 is not
TheTid == "tid"
ContestPids == <<1>>
AllPids == {1, 2}

Includes(seq, x) == \E i \in 1..Len(seq) : seq[i] = x

\* floor(ms / 1000)
FloorSec(ms) == ms \div 1000

(* --------------------------- journal order ---------------------------- *)
RECURSIVE InsertByTime(_, _)
InsertByTime(sorted, j) ==
    IF sorted = <<>> THEN <<j>>
    ELSE IF sorted[Len(sorted)].rid.generationTime <= j.rid.generationTime
         THEN Append(sorted, j)
         ELSE Append(InsertByTime(SubSeq(sorted, 1, Len(sorted) - 1), j),
                     sorted[Len(sorted)])

RECURSIVE SortByTime(_)
SortByTime(journal) ==
    IF journal = <<>> THEN <<>>
    ELSE InsertByTime(SortByTime(SubSeq(journal, 1, Len(journal) - 1)),
                      journal[Len(journal)])

\* tsdoc.journal.sort((a, b) => a.rid.generationTime - b.rid.generationTime)
_getStatusJournal(journal) == SortByTime(journal)

(* ------------------------------ acm.stat ------------------------------ *)
\* a loop that keeps replacing the retained entry after an acceptance
AcmStepAlways(tdoc, st, j) ==
    IF Includes(tdoc.pids, j.pid)
    THEN [effective |-> [p \in DOMAIN st.effective \cup {j.pid} |->
                            IF p = j.pid THEN j ELSE st.effective[p]],
          naccept |-> IF ~j.accept
                      THEN [p \in DOMAIN st.naccept \cup {j.pid} |->
                              IF p = j.pid
                              THEN (IF p \in DOMAIN st.naccept
                                    THEN st.naccept[p] ELSE 0) + 1
                              ELSE st.naccept[p]]
                      ELSE st.naccept]
    ELSE st

\* the loop of lines 30-36: st = [effective, naccept], maps keyed by pid
AcmStep(tdoc, st, j) ==
    IF Includes(tdoc.pids, j.pid)
       /\ ~(j.pid \in DOMAIN st.effective /\ st.effective[j.pid].accept)
    THEN [effective |-> [p \in DOMAIN st.effective \cup {j.pid} |->
                            IF p = j.pid THEN j ELSE st.effective[p]],
          naccept |-> IF ~j.accept
                      THEN [p \in DOMAIN st.naccept \cup {j.pid} |->
                              IF p = j.pid
                              THEN (IF p \in DOMAIN st.naccept
                                    THEN st.naccept[p] ELSE 0) + 1
                              ELSE st.naccept[p]]
                      ELSE st.naccept]
    ELSE st

RECURSIVE AcmFold(_, _, _)
AcmFold(tdoc, st, journal) ==
    IF journal = <<>> THEN st
    ELSE AcmFold(tdoc, AcmStep(tdoc, st, Head(journal)), Tail(journal))

EmptyMap == [p \in {} |-> 0]

\* naccept[pid], undefined when the problem has no rejection counted
AcmNaccept(st, pid) ==
    IF pid \in DOMAIN st.naccept THEN Num(st.naccept[pid]) ELSE undefined

\* _time(jdoc): real + 20 * 60 * naccept[jdoc.pid]
AcmTime(tdoc, st, jdoc) ==
    JsAdd(Num(jdoc.rid.generationTime - FloorSec(tdoc.beginAt)),
          JsMul(20 * 60, AcmNaccept(st, jdoc.pid)))

\* the keys of an object with integer keys are visited in ascending order
RECURSIVE KeysAscending(_)
KeysAscending(S) ==
    IF S = {} THEN <<>>
    ELSE LET m == CHOOSE x \in S : \A y \in S : x <= y
         IN <<m>> \o KeysAscending(S \ {m})

AcmDetail(tdoc, st) ==
    LET keys == KeysAscending(DOMAIN st.effective)
    IN [i \in 1..Len(keys) |->
          LET j == st.effective[keys[i]]
          IN [rid |-> j.rid, pid |-> j.pid, accept |-> j.accept, score |-> j.score,
              naccept |-> AcmNaccept(st, j.pid), time |-> AcmTime(tdoc, st, j)]]

RECURSIVE AcmAccept(_)
AcmAccept(detail) ==
    IF detail = <<>> THEN 0
    ELSE (IF Head(detail).accept THEN 1 ELSE 0) + AcmAccept(Tail(detail))

\* a total that adds the time of every entry of detail, accepted or not
RECURSIVE AcmTotalTimeOfAll(_, _)
AcmTotalTimeOfAll(detail, acc) ==
    IF detail = <<>> THEN acc
    ELSE AcmTotalTimeOfAll(Tail(detail), JsAdd(acc, Head(detail).time))

\* lines 49-52: accept += d.accept; if (d.accept) time += d.time
RECURSIVE AcmTotalTime(_, _)
AcmTotalTime(detail, acc) ==
    IF detail = <<>> THEN acc
    ELSE AcmTotalTime(Tail(detail),
                      IF Head(detail).accept THEN JsAdd(acc, Head(detail).time)
                      ELSE acc)

acmStat(tdoc, journal) ==
    LET st == AcmFold(tdoc, [effective |-> EmptyMap, naccept |-> EmptyMap], journal)
        detail == AcmDetail(tdoc, st)
    IN [threw |-> FALSE,
        accept |-> Num(AcmAccept(detail)),
        time |-> AcmTotalTime(detail, Num(0)),
        score |-> undefined,
        penaltyScore |-> undefined,
        detail |-> detail]

(* ------------------------------- oi.stat ------------------------------ *)
\* a total over the latest entry of each contest problem only
OiScoreOfLatest(tdoc, journal) ==
    LET latest == {i \in 1..Len(journal) :
                     /\ Includes(tdoc.pids, journal[i].pid)
                     /\ \A k \in (i + 1)..Len(journal) : journal[k].pid # journal[i].pid}
        RECURSIVE Sum(_)
        Sum(S) == IF S = {} THEN 0
                  ELSE LET i == CHOOSE x \in S : TRUE
                       IN journal[i].score + Sum(S \ {i})
    IN Sum(latest)

\* lines 151-156: score += j.score for every contest-problem entry
RECURSIVE OiScore(_, _)
OiScore(tdoc, journal) ==
    IF journal = <<>> THEN 0
    ELSE (IF Includes(tdoc.pids, Head(journal).pid) THEN Head(journal).score ELSE 0)
         + OiScore(tdoc, Tail(journal))

\* a detail map that keeps the first entry of each contest problem
OiDetailOfFirst(tdoc, journal) ==
    LET ps == {journal[i].pid : i \in 1..Len(journal)}
                 \cap {tdoc.pids[i] : i \in 1..Len(tdoc.pids)}
    IN [p \in ps |->
          journal[CHOOSE i \in 1..Len(journal) :
                     /\ journal[i].pid = p
                     /\ \A k \in 1..(i - 1) : journal[k].pid # p]]

\* detail[j.pid] = j for every contest-problem entry: the last one stays
OiDetail(tdoc, journal) ==
    LET ps == {journal[i].pid : i \in 1..Len(journal)}
                 \cap {tdoc.pids[i] : i \in 1..Len(tdoc.pids)}
    IN [p \in ps |->
          journal[CHOOSE i \in 1..Len(journal) :
                     /\ journal[i].pid = p
                     /\ \A k \in (i + 1)..Len(journal) : journal[k].pid # p]]

oiStat(tdoc, journal) ==
    [threw |-> FALSE,
     accept |-> undefined,
     time |-> undefined,
     score |-> Num(OiScore(tdoc, journal)),
     penaltyScore |-> undefined,
     detail |-> OiDetail(tdoc, journal)]

(* ---------------------------- homework.stat --------------------------- *)
\* journal[j.pid]: the array element at index j.pid (0-based), or undefined
HomeworkIndexDefined(journal, j) == j.pid + 1 \in 1..Len(journal)

\* the loop of lines 217-223: st = [effective, threw]; reading .accept of an
\* undefined element raises a TypeError
HomeworkStep(tdoc, journal, st, j) ==
    IF st.threw THEN st
    ELSE IF Includes(tdoc.pids, j.pid) /\ j.pid \notin DOMAIN st.effective
    THEN IF ~HomeworkIndexDefined(journal, j)
         THEN [st EXCEPT !.threw = TRUE]
         ELSE IF journal[j.pid + 1].accept
              THEN [st EXCEPT !.effective =
                       [p \in DOMAIN st.effective \cup {j.pid} |->
                          IF p = j.pid THEN j ELSE st.effective[p]]]
              ELSE st
    ELSE st

RECURSIVE HomeworkFold(_, _, _, _)
HomeworkFold(tdoc, journal, st, rest) ==
    IF rest = <<>> THEN st
    ELSE HomeworkFold(tdoc, journal, HomeworkStep(tdoc, journal, st, Head(rest)),
                      Tail(rest))

\* Math.floor(t - ms / 1000) for an integer t is t - ceil(ms / 1000)
CeilSec(ms) == (ms + 999) \div 1000

\* lines 236-241: the keys ascending; the multiplier of the last key whose hour
\* boundary is not past exceedSeconds
RECURSIVE PenaltyCoefficient(_, _, _, _)
PenaltyCoefficient(penaltyRules, keys, exceedSeconds, coefficient) ==
    IF keys = <<>> THEN coefficient
    ELSE IF Head(keys) * 3600 <= exceedSeconds
         THEN PenaltyCoefficient(penaltyRules, Tail(keys), exceedSeconds,
                                 penaltyRules[Head(keys)])
         ELSE coefficient

\* penaltyScore(jdoc), lines 229-243. Multipliers are held in percent and the
\* result in hundredths of a point
HomeworkPenaltyScore(tdoc, jdoc) ==
    LET exceedSeconds == jdoc.rid.generationTime - CeilSec(tdoc.penaltySince)
    IN IF exceedSeconds < 0 THEN jdoc.score * 100
       ELSE jdoc.score * PenaltyCoefficient(tdoc.penaltyRules,
                                            KeysAscending(DOMAIN tdoc.penaltyRules),
                                            exceedSeconds, 100)

\* lines 244-257: time(j) is applied to the key j of `for (const j in effective)`,
\* a string, whose .rid is undefined: building any detail entry raises a TypeError;
\* with no effective entry every Math.sum is the sum of an empty list
homeworkStat(tdoc, journal) ==
    LET st == HomeworkFold(tdoc, journal, [effective |-> EmptyMap, threw |-> FALSE],
                           journal)
    IN [threw |-> st.threw \/ DOMAIN st.effective # {},
        accept |-> undefined,
        time |-> Num(0),
        score |-> Num(0),
        penaltyScore |-> Num(0),
        detail |-> <<>>]

(* ---------------------------- rule registry --------------------------- *)
\* RULES[rule].stat(tdoc, journal)
Stat(tdoc, journal) ==
    CASE tdoc.rule = "acm" -> acmStat(tdoc, journal)
      [] tdoc.rule = "oi" -> oiStat(tdoc, journal)
      [] tdoc.rule = "homework" -> homeworkStat(tdoc, journal)

\* the snapshot fields a stat result sets on the status record
Snapshot(res) ==
    [set |-> TRUE, accept |-> res.accept, time |-> res.time, score |-> res.score,
     penaltyScore |-> res.penaltyScore, detail |-> res.detail]

NoStats ==
    [set |-> FALSE, accept |-> undefined, time |-> undefined, score |-> undefined,
     penaltyScore |-> undefined, detail |-> <<>>]

(* ------------------------------- state -------------------------------- *)
VARIABLES
    tdoc,      \* the contest record
    status,    \* status sub-collection: uid -> status record of the contest
    order,     \* uids of the existing status records, in creation order
    upd,       \* updateStatus calls
    att,       \* attend calls
    rc,        \* the recalcStatus call
    board,     \* the scoreboard computation (getScoreboard, getAndListStatus)
    statCall,  \* a call of RULES[rule].stat: its journal argument and its result
    clock,     \* the current instant (new Date()) and what the last reader of it saw
    store      \* the contest and homework documents, and the last add / edit / get

vars == <<tdoc, status, order, upd, att, rc, board, statCall, clock, store>>

\* no reader of the clock and no document call is under observation
NoClock == [now |-> 0, pc |-> "none"]

NoStore == [pc |-> "none"]

\* what a stat call gives its caller: the snapshot, or a TypeError
Outcome(res) == [threw |-> res.threw,
                 stats |-> IF res.threw THEN NoStats ELSE Snapshot(res)]

NoOutcome == [threw |-> FALSE, stats |-> NoStats]

\* no stat call is under observation
NoStatCall == [pc |-> "none", journal |-> <<>>, res |-> NoOutcome, again |-> NoOutcome]

\* the record `add` stores (lines 371-377), begun at second 1
Contest(rule) ==
    [rule |-> rule, beginAt |-> 1000, endAt |-> 3000, pids |-> ContestPids,
     attend |-> 0]

NoTsdoc == [exists |-> FALSE, attend |-> 0, rev |-> 0, journal |-> <<>>, stats |-> NoStats]

(* --------------------------- document store --------------------------- *)
\* revPushStatus: append to the journal and bump rev as one unit (upsert)
revPushStatus(doc, value) ==
    [doc EXCEPT !.exists = TRUE, !.journal = Append(@, value), !.rev = @ + 1]

\* revSetStatus: write the snapshot only if the record still has revision rev
revSetStatusMatches(doc, rev) == doc.exists /\ doc.rev = rev

revSetStatus(doc, rev, journal, stats) ==
    IF revSetStatusMatches(doc, rev)
    THEN [doc EXCEPT !.journal = journal, !.stats = stats, !.rev = @ + 1]
    ELSE doc

\* cappedIncStatus(..., 'attend', 1, 0, 1): fails when attend is already at the cap
cappedIncStatusFails(doc) == doc.attend >= 1

cappedIncStatus(doc) == [doc EXCEPT !.exists = TRUE, !.attend = @ + 1]

\* document.inc(..., 'attend', 1) on the contest record
inc(doc) == [doc EXCEPT !.attend = @ + 1]

\* a status record enters the collection at the end of the natural order
Created(uid) == IF status[uid].exists THEN order ELSE Append(order, uid)

(* ------------------------------- attend ------------------------------- *)
\* mutant: the cap passed to cappedIncStatus is 2
AttendRejectedCapTwo(doc) == doc.attend >= 2

\* line 441 with its catch (lines 442-444): the status attend field, capped at 1
AttendRejected(doc) == cappedIncStatusFails(doc)

AttendStatus(doc) == cappedIncStatus(doc)

\* mutant: the contest's counter is not incremented
AttendContestSkipped(doc) == doc

\* mutant: the contest's counter is incremented twice
AttendContestTwice(doc) == inc(inc(doc))

\* line 445: the contest's attend counter
AttendContest(doc) == inc(doc)

IdleAtt == [pc |-> "idle", uid |-> 0]

\* calls are started in the order of their ids
MayStart(calls, c) == IF c = 1 THEN TRUE ELSE calls[c - 1].pc # "idle"

\* lines 440-444: the capped increment, or ContestAlreadyAttendedError
AttendCappedInc(c) ==
    /\ att[c].pc = "idle"
    /\ MayStart(att, c)
    /\ \E uid \in DOMAIN status :
         IF AttendRejected(status[uid])
         THEN /\ att' = [att EXCEPT ![c] = [pc |-> "ContestAlreadyAttendedError",
                                             uid |-> uid]]
              /\ UNCHANGED <<status, order>>
         ELSE /\ status' = [status EXCEPT ![uid] = AttendStatus(@)]
              /\ order' = Created(uid)
              /\ att' = [att EXCEPT ![c] = [pc |-> "capped", uid |-> uid]]
    /\ UNCHANGED <<tdoc, upd, rc, board, statCall, clock, store>>

\* line 445-446: the contest's counter, then return {}
AttendInc(c) ==
    /\ att[c].pc = "capped"
    /\ tdoc' = AttendContest(tdoc)
    /\ att' = [att EXCEPT ![c].pc = "returned"]
    /\ UNCHANGED <<status, order, upd, rc, board, statCall, clock, store>>

\* the process stops between the two awaits of attend
AttendCrash(c) ==
    /\ att[c].pc = "capped"
    /\ att' = [att EXCEPT ![c].pc = "crashed"]
    /\ UNCHANGED <<tdoc, status, order, upd, rc, board, statCall, clock, store>>

(* ---------------------------- updateStatus ---------------------------- *)
\* mutant: the attendance check is missing
UpdNotAttendedNever(attend) == FALSE

\* line 413: if (!tsdoc.attend) throw new ContestNotAttendedError
UpdNotAttended(attend) == attend = 0

\* mutant: setStatus instead of revSetStatus
UpdWriteUnconditioned(doc, rev, journal, stats) ==
    [doc EXCEPT !.journal = journal, !.stats = stats, !.rev = @ + 1]

\* mutant: the write accepts any revision from rev on
UpdWriteIfNewer(doc, rev, journal, stats) ==
    IF doc.exists /\ doc.rev >= rev
    THEN [doc EXCEPT !.journal = journal, !.stats = stats, !.rev = @ + 1]
    ELSE doc

\* line 416: the write is conditioned on the revision the append returned
UpdWrite(doc, rev, journal, stats) == revSetStatus(doc, rev, journal, stats)

IdleUpd == [pc |-> "idle", uid |-> 0, entry |-> <<>>, attend |-> 0, rev |-> 0,
            journal |-> <<>>]

\* the submissions of the protocol runs: contest problem 1, full score iff accepted
Entries(c) ==
    {[rid |-> [generationTime |-> t, id |-> c], pid |-> 1, accept |-> a,
      score |-> IF a THEN MaxScore ELSE 0] : t \in 1..MaxTime, a \in BOOLEAN}

\* the call has settled: its copy of the status record is dropped
UpdEnd(call, pc) == [call EXCEPT !.pc = pc, !.journal = <<>>]

\* line 409: get(domainId, tid, type) throws ContestNotFoundError for an unknown tid
UpdGetFails(c) ==
    /\ upd[c].pc = "idle"
    /\ MayStart(upd, c)
    /\ \E tid \in {"other"} :
         /\ tid # TheTid
         /\ upd' = [upd EXCEPT ![c].pc = "ContestNotFoundError"]
    /\ UNCHANGED <<tdoc, status, order, att, rc, board, statCall, clock, store>>

\* lines 409-412: the contest is read (its rule, problems and begin never change
\* here, so the read is taken together with the next step), then the journal
\* append; the call keeps the returned record
UpdPush(c) ==
    /\ upd[c].pc = "idle"
    /\ MayStart(upd, c)
    /\ \E uid \in DOMAIN status, e \in Entries(c) :
         LET tsdoc == revPushStatus(status[uid], e)
         IN /\ status' = [status EXCEPT ![uid] = tsdoc]
            /\ order' = Created(uid)
            /\ upd' = [upd EXCEPT ![c] = [pc |-> "pushed", uid |-> uid, entry |-> e,
                                          attend |-> tsdoc.attend, rev |-> tsdoc.rev,
                                          journal |-> tsdoc.journal]]
    /\ UNCHANGED <<tdoc, att, rc, board, statCall, clock, store>>

\* lines 413-416: the attendance check, the recompute and the conditioned write
UpdSet(c) ==
    /\ upd[c].pc = "pushed"
    /\ LET uid == upd[c].uid
           journal == _getStatusJournal(upd[c].journal)
           stats == Stat(tdoc, journal)
       IN IF UpdNotAttended(upd[c].attend)
          THEN /\ upd' = [upd EXCEPT ![c] = UpdEnd(@, "ContestNotAttendedError")]
               /\ UNCHANGED status
          ELSE IF stats.threw
          THEN /\ upd' = [upd EXCEPT ![c] = UpdEnd(@, "TypeError")]
               /\ UNCHANGED status
          ELSE /\ status' = [status EXCEPT ![uid] =
                               UpdWrite(@, upd[c].rev, journal, Snapshot(stats))]
               /\ upd' = [upd EXCEPT ![c] =
                            UpdEnd(@, IF revSetStatusMatches(status[uid], upd[c].rev)
                                      THEN "written" ELSE "rejected")]
    /\ UNCHANGED <<tdoc, order, att, rc, board, statCall, clock, store>>

(* ---------------------------- recalcStatus ---------------------------- *)
NoTask == [st |-> "none", rev |-> 0, journal |-> <<>>]

\* the recalcStatus call: its position, the write issued for each participant, and
\* which call of recalcStatus it is
IdleRc(uids) == [pc |-> "idle", task |-> [u \in uids |-> NoTask], run |-> 1]

\* mutant: setStatus instead of revSetStatus
RecalcWriteUnconditioned(doc, rev, journal, stats) ==
    [doc EXCEPT !.journal = journal, !.stats = stats, !.rev = @ + 1]

\* lines 559-562: each task's write is conditioned on the revision that was read
RecalcWrite(doc, rev, journal, stats) == revSetStatus(doc, rev, journal, stats)

\* lines 554-565: the records are visited in the order the store returned them; a
\* record without journal is skipped; a stat that throws ends the loop, the writes
\* issued before it stay issued
RECURSIVE RecalcLoop(_, _)
RecalcLoop(uids, r) ==
    IF uids = <<>> THEN [r EXCEPT !.pc = "awaiting"]
    ELSE LET uid == Head(uids)
             tsdoc == status[uid]
             journal == _getStatusJournal(tsdoc.journal)
         IN IF tsdoc.journal = <<>> THEN RecalcLoop(Tail(uids), r)
            ELSE IF Stat(tdoc, journal).threw THEN [r EXCEPT !.pc = "TypeError"]
            ELSE RecalcLoop(Tail(uids),
                            [r EXCEPT !.task[uid] = [st |-> "pending",
                                                     rev |-> tsdoc.rev,
                                                     journal |-> journal]])

\* lines 549-565: read the contest and its status records, issue the writes
RecalcRead ==
    /\ rc.pc = "idle"
    /\ rc' = RecalcLoop(order, rc)
    /\ UNCHANGED <<tdoc, status, order, upd, att, board, statCall, clock, store>>

\* stats recomputed from the latest entry alone
RecalcStatsOfLatest(t, journal) == Snapshot(Stat(t, <<journal[Len(journal)]>>))

\* line 557: the stats of the sorted journal
RecalcStats(t, journal) == Snapshot(Stat(t, journal))

\* one issued revSetStatus reaches the store; stat is recomputed here from the
\* journal the task holds, which is what line 557 computed (tdoc's rule, pids and
\* begin do not change)
RecalcSet(uid) ==
    /\ rc.task[uid].st = "pending"
    /\ LET t == rc.task[uid]
       IN /\ status' = [status EXCEPT ![uid] =
                          RecalcWrite(@, t.rev, t.journal, RecalcStats(tdoc, t.journal))]
          /\ rc' = [rc EXCEPT !.task[uid].st =
                      IF revSetStatusMatches(status[uid], t.rev)
                      THEN "written" ELSE "rejected"]
    /\ UNCHANGED <<tdoc, order, upd, att, board, statCall, clock, store>>

(* ------------------------------ ranking ------------------------------- *)
\* lib/rank: competition ranking of a sequence under an adjacent-pair equality
\* (equ: the set of pairs the predicate holds of); yields <<rank, doc>> pairs in
\* input order
ranked(docs, equ) ==
    LET r[i \in 1..Len(docs)] ==
            IF i = 1 THEN 1
            ELSE IF <<docs[i - 1], docs[i]>> \in equ THEN r[i - 1] ELSE i
    IN [i \in 1..Len(docs) |-> <<r[i], docs[i]>>]

Elements(docs) == {docs[i] : i \in 1..Len(docs)}

\* (a, b) => a.score === b.score
ScoreEq(tsdocs) ==
    {p \in Elements(tsdocs) \X Elements(tsdocs) : StrictEq(p[1].score, p[2].score)}

acmRank(tsdocs) == ranked(tsdocs, ScoreEq(tsdocs))

\* mutant: the comparison reads the time field
TimeEq(tsdocs) ==
    {p \in Elements(tsdocs) \X Elements(tsdocs) : StrictEq(p[1].time, p[2].time)}

oiRankByTime(tsdocs) == ranked(tsdocs, TimeEq(tsdocs))

oiRank(tsdocs) == ranked(tsdocs, ScoreEq(tsdocs))

homeworkRank(tsdocs) == ranked(tsdocs, ScoreEq(tsdocs))

\* RULES[rule].rank(tsdocs)
Rank(rule, tsdocs) ==
    CASE rule = "acm" -> acmRank(tsdocs)
      [] rule = "oi" -> oiRank(tsdocs)
      [] rule = "homework" -> homeworkRank(tsdocs)

\* RULES[rule].statusSort: <<field, direction>> keys, first key first
statusSort(rule) ==
    CASE rule = "acm" -> <<<<"accept", -1>>, <<"time", 1>>>>
      [] rule = "oi" -> <<<<"score", -1>>>>
      [] rule = "homework" -> <<<<"penaltyScore", -1>>, <<"time", 1>>>>

\* the store's order of values: missing, then NaN, then the numbers
BsonClass(x) == CASE x.t = "undefined" -> 0 [] x.t = "NaN" -> 1 [] x.t = "number" -> 2

BsonLess(x, y) ==
    \/ BsonClass(x) < BsonClass(y)
    \/ BsonClass(x) = BsonClass(y) /\ x.v < y.v

\* a sorts strictly before b under the keys
RECURSIVE SortsBefore(_, _, _)
SortsBefore(keys, a, b) ==
    IF keys = <<>> THEN FALSE
    ELSE LET f == Head(keys)[1]
             x == IF Head(keys)[2] = 1 THEN a[f] ELSE b[f]
             y == IF Head(keys)[2] = 1 THEN b[f] ELSE a[f]
         IN IF BsonLess(x, y) THEN TRUE
            ELSE IF BsonLess(y, x) THEN FALSE
            ELSE SortsBefore(Tail(keys), a, b)

RECURSIVE InsertByKeys(_, _, _)
InsertByKeys(keys, sorted, d) ==
    IF sorted = <<>> THEN <<d>>
    ELSE IF SortsBefore(keys, d, sorted[Len(sorted)])
         THEN Append(InsertByKeys(keys, SubSeq(sorted, 1, Len(sorted) - 1), d),
                     sorted[Len(sorted)])
         ELSE Append(sorted, d)

\* cursor.sort(keys).toArray()
RECURSIVE CursorSort(_, _)
CursorSort(keys, docs) ==
    IF docs = <<>> THEN <<>>
    ELSE InsertByKeys(keys, CursorSort(keys, SubSeq(docs, 1, Len(docs) - 1)),
                      docs[Len(docs)])

(* ------------------------------ lifecycle ----------------------------- *)
\* instants are milliseconds, as Date.getTime() gives them
Day == 24 * 3600 * 1000

\* isNew(tdoc, days = 1), reading the clock at `now`
isNew(t, now) == now < t.beginAt - 1 * Day

isUpcoming(t, now) == now > t.beginAt - 1 * Day /\ now < t.beginAt

isNotStarted(t, now) == now < t.beginAt

\* a window closed at its end
isOngoingUntilEnd(t, now) == t.beginAt <= now /\ now <= t.endAt

isOngoing(t, now) == t.beginAt <= now /\ now < t.endAt

\* a contest that is done only after its end instant
isDoneAfterEnd(t, now) == t.endAt < now

isDone(t, now) == t.endAt <= now

statusText(t, now) ==
    IF isNew(t, now) THEN "New"
    ELSE IF isUpcoming(t, now) THEN "Ready"
    ELSE IF isOngoing(t, now) THEN "Live..."
    ELSE "Done"

getStatusText(t, now) ==
    IF isNotStarted(t, now) THEN "not_started"
    ELSE IF isOngoing(t, now) THEN "ongoing"
    ELSE "finished"

\* RULES[rule].showRecord(tdoc, now)
showRecord(t, now) ==
    CASE t.rule = "acm" -> now > t.endAt
      [] t.rule = "oi" -> now > t.endAt
      [] t.rule = "homework" -> TRUE

(* ----------------------------- scoreboard ----------------------------- *)
\* a scoreboard cell: { type, value, raw }
Cell(type, value, raw) == [type |-> type, value |-> value, raw |-> raw]

\* misc.formatSeconds(seconds), kept as the value it formats
formatSeconds(x) == [t |-> "formatSeconds", v |-> x]

\* udict[uid].uname and pdict[pid].title
Uname(uid) == [t |-> "uname", v |-> uid]

Title(pid) == [t |-> "title", v |-> pid]

\* a submission handle in a cell
Rid(rid) == [t |-> "rid", v |-> rid]

\* tsdoc.journal and tsdoc.detail; a record without the field has nothing to loop over
JournalOf(tsdoc) == IF "journal" \in DOMAIN tsdoc THEN tsdoc.journal ELSE <<>>

DetailOf(tsdoc) == IF "detail" \in DOMAIN tsdoc THEN tsdoc.detail ELSE <<>>

\* tsddict[item.pid] = item for every item: the last item of a pid stays
Tsddict(items) ==
    [p \in {items[i].pid : i \in 1..Len(items)} |->
        items[CHOOSE i \in 1..Len(items) :
                 /\ items[i].pid = p
                 /\ \A k \in (i + 1)..Len(items) : items[k].pid # p]]

\* tsddict[pid]?.field as a value
ItemValue(tsddict, pid, field) ==
    IF pid \notin DOMAIN tsddict \/ field \notin DOMAIN tsddict[pid] THEN undefined
    ELSE CASE field = "rid" -> Rid(tsddict[pid].rid)
           [] field = "score" -> Num(tsddict[pid].score)
           [] OTHER -> tsddict[pid][field]

\* the placeholder of a cell without data
PlaceholderBlank == Str("")

Placeholder == Str("-")

RECURSIVE Concat(_)
Concat(seqs) == IF seqs = <<>> THEN <<>> ELSE Head(seqs) \o Concat(Tail(seqs))

\* acm.scoreboard, lines 55-90: the header row
acmColumns(isExport, t) ==
    <<Cell("rank", Str("Rank"), undefined), Cell("user", Str("User"), undefined),
      Cell("solved_problems", Str("Solved Problems"), undefined)>>
    \o (IF isExport
        THEN <<Cell("total_time", Str("Total Time (Seconds)"), undefined),
               Cell("total_time_str", Str("Total Time"), undefined)>>
        ELSE <<>>)
    \o Concat([i \in 1..Len(t.pids) |->
                 IF isExport
                 THEN <<Cell("problem_flag", Format(<<Num(i), Title(t.pids[i])>>),
                             undefined),
                        Cell("problem_time", Format(<<Num(i), Str("Time (Seconds)")>>),
                             undefined),
                        Cell("problem_time_str", Format(<<Num(i), Str("Time")>>),
                             undefined)>>
                 ELSE <<Cell("problem_detail", Format(<<Num(i)>>), Num(t.pids[i]))>>])

\* lines 92-138: one row of a ranked record
acmRow(isExport, t, rank, tsdoc) ==
    LET tsddict == Tsddict(DetailOf(tsdoc))
    IN <<Cell("string", Num(rank), undefined),
         Cell("user", Uname(tsdoc.uid), Num(tsdoc.uid)),
         Cell("string", JsOr(tsdoc.accept, Num(0)), undefined)>>
       \o (IF isExport
           THEN <<Cell("string", JsOr(tsdoc.time, Num(0)), undefined),
                  Cell("string", JsOr(tsdoc.time, Num(0)), undefined)>>
           ELSE <<>>)
       \o Concat([i \in 1..Len(t.pids) |->
            LET pid == t.pids[i]
                accepted == pid \in DOMAIN tsddict /\ tsddict[pid].accept
                rid == IF accepted THEN Rid(tsddict[pid].rid) ELSE Null
                colAccepted == IF accepted THEN Str("Accepted") ELSE Placeholder
                colTime == IF accepted THEN tsddict[pid].time ELSE Placeholder
                colTimeStr == IF accepted THEN formatSeconds(tsddict[pid].time)
                              ELSE Placeholder
            IN IF isExport
               THEN <<Cell("string", colAccepted, undefined),
                      Cell("string", colTime, undefined),
                      Cell("string", colTimeStr, undefined)>>
               ELSE <<Cell("record", Format(<<colAccepted, colTimeStr>>), rid)>>])

acmScoreboard(isExport, t, rankedTsdocs) ==
    <<acmColumns(isExport, t)>>
    \o [i \in 1..Len(rankedTsdocs) |->
          acmRow(isExport, t, rankedTsdocs[i][1], rankedTsdocs[i][2])]

\* oi.scoreboard, lines 166-184: the header row
oiColumns(isExport, t) ==
    <<Cell("rank", Str("Rank"), undefined), Cell("user", Str("User"), undefined),
      Cell("total_score", Str("Total Score"), undefined)>>
    \o [i \in 1..Len(t.pids) |->
          IF isExport
          THEN Cell("problem_score", Format(<<Num(i), Title(t.pids[i])>>), undefined)
          ELSE Cell("problem_detail", Format(<<Num(i)>>), Num(t.pids[i]))]

\* lines 186-205: one row of a ranked record, from its journal
oiRow(isExport, t, rank, tsdoc) ==
    LET tsddict == Tsddict(JournalOf(tsdoc))
    IN <<Cell("string", Num(rank), undefined),
         Cell("user", Uname(tsdoc.uid), Num(tsdoc.uid)),
         Cell("string", JsOr(tsdoc.score, Num(0)), undefined)>>
       \o [i \in 1..Len(t.pids) |->
             Cell("record", JsOr(ItemValue(tsddict, t.pids[i], "score"), Placeholder),
                  JsOr(ItemValue(tsddict, t.pids[i], "rid"), Null))]

\* an export that leaves out the participants without a journal
oiScoreboardExportSkipsEmpty(isExport, t, rankedTsdocs) ==
    LET kept == IF isExport
                THEN SelectSeq(rankedTsdocs, LAMBDA r : JournalOf(r[2]) # <<>>)
                ELSE rankedTsdocs
    IN <<oiColumns(isExport, t)>>
       \o [i \in 1..Len(kept) |-> oiRow(isExport, t, kept[i][1], kept[i][2])]

oiScoreboard(isExport, t, rankedTsdocs) ==
    <<oiColumns(isExport, t)>>
    \o [i \in 1..Len(rankedTsdocs) |->
          oiRow(isExport, t, rankedTsdocs[i][1], rankedTsdocs[i][2])]

\* a header without the total time text column
homeworkColumnsNoTimeStr(isExport, t) ==
    <<Cell("rank", Str("Rank"), undefined), Cell("user", Str("User"), undefined),
      Cell("total_score", Str("Score"), undefined)>>
    \o [i \in 1..Len(t.pids) |->
          Cell("problem_detail", Format(<<Num(i)>>), Num(t.pids[i]))]

\* homework.scoreboard, lines 262-302: the header row
homeworkColumns(isExport, t) ==
    <<Cell("rank", Str("Rank"), undefined), Cell("user", Str("User"), undefined),
      Cell("total_score", Str("Score"), undefined)>>
    \o (IF isExport
        THEN <<Cell("total_original_score", Str("Original Score"), undefined),
               Cell("total_time", Str("Total Time (Seconds)"), undefined)>>
        ELSE <<>>)
    \o <<Cell("total_time_str", Str("Total Time"), undefined)>>
    \o Concat([i \in 1..Len(t.pids) |->
                 IF isExport
                 THEN <<Cell("problem_score", Format(<<Num(i), Title(t.pids[i])>>),
                             undefined),
                        Cell("problem_original_score",
                             Format(<<Num(i), Str("Original Score")>>), undefined),
                        Cell("problem_time", Format(<<Num(i), Str("Time (Seconds)")>>),
                             undefined),
                        Cell("problem_time_str", Format(<<Num(i), Str("Time")>>),
                             undefined)>>
                 ELSE <<Cell("problem_detail", Format(<<Num(i)>>), Num(t.pids[i]))>>])

\* lines 304-348: one row of a ranked record, from its journal
homeworkRow(isExport, t, rank, tsdoc) ==
    LET tsddict == Tsddict(JournalOf(tsdoc))
    IN <<Cell("string", Num(rank), undefined),
         Cell("user", Uname(tsdoc.uid), Num(tsdoc.uid)),
         Cell("string", JsOr(tsdoc.penaltyScore, Num(0)), undefined)>>
       \o (IF isExport
           THEN <<Cell("string", JsOr(tsdoc.score, Num(0)), undefined),
                  Cell("string", JsOr(tsdoc.time, Num(0)), undefined)>>
           ELSE <<>>)
       \o <<Cell("string", formatSeconds(JsOr(tsdoc.time, Num(0))), undefined)>>
       \o Concat([i \in 1..Len(t.pids) |->
            LET pid == t.pids[i]
                rid == ItemValue(tsddict, pid, "rid")
                colScore == JsOr(ItemValue(tsddict, pid, "penaltyScore"), Placeholder)
                colOriginalScore == JsOr(ItemValue(tsddict, pid, "score"), Placeholder)
                colTime == JsOr(ItemValue(tsddict, pid, "time"), Placeholder)
                colTimeStr == IF colTime # Str("-")
                              THEN formatSeconds(JsOr(colTime, Num(0)))
                              ELSE Str("-")
            IN IF isExport
               THEN <<Cell("string", colScore, undefined),
                      Cell("string", colOriginalScore, undefined),
                      Cell("string", colTime, undefined),
                      Cell("string", colTimeStr, undefined)>>
               ELSE <<Cell("record",
                           Format(<<colScore, colOriginalScore, colTimeStr>>), rid)>>])

homeworkScoreboard(isExport, t, rankedTsdocs) ==
    <<homeworkColumns(isExport, t)>>
    \o [i \in 1..Len(rankedTsdocs) |->
          homeworkRow(isExport, t, rankedTsdocs[i][1], rankedTsdocs[i][2])]

\* RULES[rule].scoreboard(isExport, _, tdoc, rankedTsdocs, udict, pdict)
Scoreboard(isExport, t, rankedTsdocs) ==
    CASE t.rule = "acm" -> acmScoreboard(isExport, t, rankedTsdocs)
      [] t.rule = "oi" -> oiScoreboard(isExport, t, rankedTsdocs)
      [] t.rule = "homework" -> homeworkScoreboard(isExport, t, rankedTsdocs)

\* RULES[rule].showScoreboard(tdoc, now)
showScoreboard(t, now) ==
    CASE t.rule = "acm" -> TRUE
      [] t.rule = "oi" -> now > t.endAt
      [] t.rule = "homework" -> TRUE

\* a caller without the permission gets past a hidden scoreboard
canShowScoreboardAlways(t, now, canViewHidden) == TRUE

\* canShowScoreboard(tdoc) with the default allowPermOverride
canShowScoreboard(t, now, canViewHidden) ==
    showScoreboard(t, now) \/ canViewHidden

\* line 512: the records go to rank as getMultiStatus returned them (line 506)
ScoreboardInput(t, tsdocs) == tsdocs

\* getScoreboard, lines 504-514, called at instant `now` by a user who has or has
\* not PERM_VIEW_CONTEST_HIDDEN_SCOREBOARD: the contest is read, then the status
\* records (read |-> TRUE) unless the scoreboard is hidden
GetScoreboard ==
    /\ board.sb.pc = "idle"
    /\ \E now \in {tdoc.endAt, tdoc.endAt + 1}, canViewHidden \in BOOLEAN,
          isExport \in BOOLEAN :
         LET req == [board.sb EXCEPT !.now = now, !.canViewHidden = canViewHidden,
                                     !.isExport = isExport]
             rankedTsdocs == Rank(tdoc.rule, ScoreboardInput(tdoc, board.tsdocs))
         IN IF ~canShowScoreboard(tdoc, now, canViewHidden)
            THEN board' = [board EXCEPT
                             !.sb = [req EXCEPT !.pc = "ContestScoreboardHiddenError"]]
            ELSE board' = [board EXCEPT
                             !.sb = [req EXCEPT
                                       !.pc = "returned", !.read = TRUE,
                                       !.ranked = rankedTsdocs,
                                       !.rows = Scoreboard(isExport, tdoc,
                                                           rankedTsdocs)]]
    /\ UNCHANGED <<tdoc, status, order, upd, att, rc, statCall, clock, store>>

\* getAndListStatus, lines 542-545
GetAndListStatus ==
    /\ board.ls.pc = "idle"
    /\ board' = [board EXCEPT
                   !.ls = [pc |-> "returned",
                           tsdocs |-> CursorSort(statusSort(tdoc.rule), board.tsdocs)]]
    /\ UNCHANGED <<tdoc, status, order, upd, att, rc, statCall, clock, store>>

(* ---------------------------- specification --------------------------- *)
IdleBoard ==
    [tsdocs |-> <<>>,
     sb |-> [pc |-> "idle", now |-> 0, canViewHidden |-> FALSE, isExport |-> FALSE,
             read |-> FALSE, ranked |-> <<>>, rows |-> <<>>],
     ls |-> [pc |-> "idle", tsdocs |-> <<>>]]

Init ==
    /\ \E rule \in RuleNames : tdoc = Contest(rule)
    /\ status = [u \in Uids |-> NoTsdoc]
    /\ order = <<>>
    /\ upd = [c \in UpdCalls |-> IdleUpd]
    /\ att = [c \in AttCalls |-> IdleAtt]
    /\ rc = IdleRc(Uids)
    /\ board = IdleBoard
    /\ statCall = NoStatCall
    /\ clock = NoClock
    /\ store = NoStore

Next ==
    \/ \E c \in DOMAIN att : AttendCappedInc(c)
    \/ \E c \in DOMAIN att : AttendInc(c)
    \/ \E c \in DOMAIN att : AttendCrash(c)
    \/ \E c \in DOMAIN upd : UpdGetFails(c)
    \/ \E c \in DOMAIN upd : UpdPush(c)
    \/ \E c \in DOMAIN upd : UpdSet(c)
    \/ RecalcRead
    \/ \E uid \in DOMAIN status : RecalcSet(uid)

Spec == Init /\ [][Next]_vars

(* ----------------------- one status record ---------------------------- *)
\* the calls on the status record of one participant: its attend, the
\* updateStatus calls on it, and recalcStatus
InitRecord ==
    /\ \E rule \in RuleNames : tdoc = Contest(rule)
    /\ status = [u \in {1} |-> NoTsdoc]
    /\ order = <<>>
    /\ upd = [c \in UpdCalls |-> IdleUpd]
    /\ att = [c \in {1} |-> IdleAtt]
    /\ rc = IdleRc({1})
    /\ board = IdleBoard
    /\ statCall = NoStatCall
    /\ clock = NoClock
    /\ store = NoStore

SpecRecord == InitRecord /\ [][Next]_vars

(* ----------------------- attendance specification --------------------- *)
\* a status record that an updateStatus call created before any attendance
\* (lines 410-413: the append upserts, then ContestNotAttendedError)
AppendedOnly ==
    revPushStatus(NoTsdoc, [rid |-> [generationTime |-> 1, id |-> 0], pid |-> 1,
                            accept |-> FALSE, score |-> 0])

\* the attend calls of a contest whose participants have no status record yet, or
\* one without attendance
InitAttend ==
    /\ \E rule \in RuleNames : tdoc = Contest(rule)
    /\ status \in [Uids -> {NoTsdoc, AppendedOnly}]
    /\ order = KeysAscending({u \in Uids : status[u].exists})
    /\ upd = <<>>
    /\ att = [c \in AttCalls |-> IdleAtt]
    /\ rc = IdleRc(Uids)
    /\ board = IdleBoard
    /\ statCall = NoStatCall
    /\ clock = NoClock
    /\ store = NoStore

NextAttend ==
    \/ \E c \in DOMAIN att : AttendCappedInc(c)
    \/ \E c \in DOMAIN att : AttendInc(c)
    \/ \E c \in DOMAIN att : AttendCrash(c)

SpecAttend == InitAttend /\ [][NextAttend]_vars

(* ------------------------- clock specification ----------------------- *)
\* a contest that begins on the third day and lasts `length` milliseconds
ClockContest(rule, length) ==
    [Contest(rule) EXCEPT !.beginAt = 2 * Day, !.endAt = 2 * Day + length]

\* the instants around the day before begin, begin and end
ClockInstants(t) ==
    {t.beginAt - Day - 1, t.beginAt - Day, t.beginAt - Day + 1,
     t.beginAt - 1, t.beginAt, t.beginAt + 1,
     t.endAt - 1, t.endAt, t.endAt + 1}

\* a call of getStatusText or statusText: the predicates it has evaluated so far
\* (step), the instant of its latest clock reading (at) and its result; last and
\* before are the results of the two latest getStatusText calls
NoText ==
    [fn |-> "none", pc |-> "idle", step |-> 0, at |-> 0, result |-> "none",
     last |-> "none", before |-> "none"]

InitClock ==
    /\ \E rule \in RuleNames, length \in {2, Day} : tdoc = ClockContest(rule, length)
    /\ clock = [now |-> tdoc.beginAt - Day - 1, pc |-> "idle", text |-> NoText]
    /\ status = [u \in {1} |-> NoTsdoc]
    /\ order = <<>>
    /\ upd = <<>>
    /\ att = <<>>
    /\ rc = IdleRc({1})
    /\ board = IdleBoard
    /\ statCall = NoStatCall
    /\ store = NoStore

\* time passes
Tick ==
    /\ \E later \in ClockInstants(tdoc) :
         /\ later > clock.now
         /\ clock' = [clock EXCEPT !.now = later]
    /\ UNCHANGED <<tdoc, status, order, upd, att, rc, board, statCall, store>>

\* the lifecycle and visibility predicates, each evaluated at new Date()
ReadLifecycle ==
    /\ clock' = [now |-> clock.now, pc |-> "read", at |-> clock.now,
                 isNew |-> isNew(tdoc, clock.now),
                 isUpcoming |-> isUpcoming(tdoc, clock.now),
                 isNotStarted |-> isNotStarted(tdoc, clock.now),
                 isOngoing |-> isOngoing(tdoc, clock.now),
                 isDone |-> isDone(tdoc, clock.now),
                 statusText |-> statusText(tdoc, clock.now),
                 getStatusText |-> getStatusText(tdoc, clock.now),
                 showRecord |-> showRecord(tdoc, clock.now),
                 showScoreboard |-> showScoreboard(tdoc, clock.now),
                 text |-> clock.text]
    /\ UNCHANGED <<tdoc, status, order, upd, att, rc, board, statCall, store>>

\* the call returns `result`, decided by a clock reading at clock.now
TextReturn(text, result) ==
    [text EXCEPT !.pc = "returned", !.at = clock.now, !.result = result,
                 !.last = IF text.fn = "getStatusText" THEN result ELSE @,
                 !.before = IF text.fn = "getStatusText" THEN text.last ELSE @]

\* the call goes on to its next predicate, which reads the clock anew
TextOn(text) == [text EXCEPT !.pc = "running", !.at = clock.now, !.step = @ + 1]

\* getStatusText (lines 578-583) and statusText (lines 569-576) evaluate their
\* first predicate: isNotStarted, or isNew
TextStart ==
    /\ clock.text.pc # "running"
    /\ \E fn \in {"getStatusText", "statusText"} :
         LET text == [clock.text EXCEPT !.fn = fn, !.step = 0, !.result = "none"]
         IN clock' = [clock EXCEPT !.text =
               IF fn = "getStatusText"
               THEN IF isNotStarted(tdoc, clock.now) THEN TextReturn(text, "not_started")
                    ELSE TextOn(text)
               ELSE IF isNew(tdoc, clock.now) THEN TextReturn(text, "New")
                    ELSE TextOn(text)]
    /\ UNCHANGED <<tdoc, status, order, upd, att, rc, board, statCall, store>>

\* the next predicate of the running call, at the instant the clock shows by then:
\* isOngoing for getStatusText; isUpcoming and then isOngoing for statusText
TextStep ==
    /\ clock.text.pc = "running"
    /\ LET text == clock.text
       IN clock' = [clock EXCEPT !.text =
             IF text.fn = "getStatusText"
             THEN TextReturn(text, IF isOngoing(tdoc, clock.now) THEN "ongoing"
                                   ELSE "finished")
             ELSE IF text.step = 1
             THEN IF isUpcoming(tdoc, clock.now) THEN TextReturn(text, "Ready")
                  ELSE TextOn(text)
             ELSE TextReturn(text, IF isOngoing(tdoc, clock.now) THEN "Live..."
                                   ELSE "Done")]
    /\ UNCHANGED <<tdoc, status, order, upd, att, rc, board, statCall, store>>

NextClock ==
    \/ Tick
    \/ ReadLifecycle
    \/ TextStart
    \/ TextStep

SpecClock == InitClock /\ [][NextClock]_vars

(* -------------------------- stat specification ------------------------ *)
\* a contest of two problems, begun at second 1, whose penalty starts at the
\* first hour and pays 80% from one hour past it and 50% from three
StatPids == <<1, 2>>
StatAllPids == {1, 2, 3}

StatContest(rule) ==
    [rule |-> rule, beginAt |-> 1000, endAt |-> 24 * 3600 * 1000, pids |-> StatPids,
     attend |-> 0,
     penaltySince |-> 3600 * 1000, penaltyRules |-> (1 :> 80) @@ (3 :> 50)]

\* the journal entry of the i-th submission (line 410), judged at hour `hour`;
\* a submission is accepted when it has full marks
StatEntry(i, hour, pid, score) ==
    [rid |-> [generationTime |-> hour * 3600, id |-> i], pid |-> pid,
     accept |-> (score = MaxScore), score |-> score]

\* the argument journal after a call: no stat assigns to it or to its entries
JournalAfter(journal) == journal

\* a second call that goes on from the totals of the first
StatAgainCarried(t, journal, first) ==
    LET res == Stat(t, journal)
    IN [res EXCEPT !.score = JsAdd(@, first.stats.score),
                   !.accept = JsAdd(@, first.stats.accept)]

\* every accumulator of stat is a local of the call (lines 25-29, 149-150, 216)
StatAgainResult(t, journal, first) == Stat(t, journal)

\* the journals stat is given are in submission order (line 414, line 555); the
\* submissions of one participant are judged at different hours
InitStat ==
    /\ \E rule \in RuleNames : tdoc = StatContest(rule)
    /\ \E n \in 0..MaxJournal :
         \E hours \in [1..n -> 1..(MaxJournal + 1)] :
            /\ \A i \in 1..(n - 1) : hours[i] < hours[i + 1]
            /\ \E ps \in [1..n -> StatAllPids], ss \in [1..n -> 0..MaxScore] :
                 statCall = [pc |-> "idle",
                             journal |-> [i \in 1..n |->
                                            StatEntry(i, hours[i], ps[i], ss[i])],
                             res |-> NoOutcome, again |-> NoOutcome]
    /\ status = [u \in {1} |-> NoTsdoc]
    /\ order = <<>>
    /\ upd = <<>>
    /\ att = <<>>
    /\ rc = IdleRc({1})
    /\ board = IdleBoard
    /\ clock = NoClock
    /\ store = NoStore

\* RULES[tdoc.rule].stat(tdoc, journal)
StatCall ==
    /\ statCall.pc = "idle"
    /\ statCall' = [statCall EXCEPT !.pc = "called",
                                    !.res = Outcome(Stat(tdoc, statCall.journal)),
                                    !.journal = JournalAfter(@)]
    /\ UNCHANGED <<tdoc, status, order, upd, att, rc, board, clock, store>>

\* the same call once more, on the same arguments
StatCallAgain ==
    /\ statCall.pc = "called"
    /\ statCall' = [statCall EXCEPT
                      !.pc = "again",
                      !.again = Outcome(StatAgainResult(tdoc, statCall.journal,
                                                        statCall.res)),
                      !.journal = JournalAfter(@)]
    /\ UNCHANGED <<tdoc, status, order, upd, att, rc, board, clock, store>>

NextStat ==
    \/ StatCall
    \/ StatCallAgain

SpecStat == InitStat /\ [][NextStat]_vars

(* ----------------------- scoreboard specification --------------------- *)
\* the snapshot fields a status record of the rule can hold: none yet (the
\* participant only attended), or what the rule's stat writes
BoardStats(rule) ==
    {[accept |-> undefined, time |-> undefined, score |-> undefined,
      penaltyScore |-> undefined]}
    \cup
    CASE rule = "acm" ->
           {[accept |-> Num(a), time |-> tm, score |-> undefined,
             penaltyScore |-> undefined] :
              a \in 0..MaxAccept, tm \in {Num(0), Num(MaxTime), NaN}}
      [] rule = "oi" ->
           {[accept |-> undefined, time |-> undefined, score |-> Num(sc),
             penaltyScore |-> undefined] : sc \in 0..MaxScore}
      [] rule = "homework" ->
           {[accept |-> undefined, time |-> Num(0), score |-> Num(0),
             penaltyScore |-> Num(0)]}

\* n status records with the stats f gives them
BoardList(n, f) ==
    [i \in 1..n |-> [uid |-> i, accept |-> f[i].accept, time |-> f[i].time,
                     score |-> f[i].score, penaltyScore |-> f[i].penaltyScore]]

\* the status records of the contest as getMultiStatus returns them, unsorted
BoardTsdocs(rule) ==
    UNION {{BoardList(n, f) : f \in [1..n -> BoardStats(rule)]} : n \in 0..MaxDocs}

InitBoard ==
    /\ \E rule \in RuleNames :
         /\ tdoc = Contest(rule)
         /\ \E n \in 0..MaxDocs : \E f \in [1..n -> BoardStats(rule)] :
              board = [IdleBoard EXCEPT !.tsdocs = BoardList(n, f)]
    /\ statCall = NoStatCall
    /\ clock = NoClock
    /\ store = NoStore
    /\ status = [u \in Uids |-> NoTsdoc]
    /\ order = <<>>
    /\ upd = [c \in UpdCalls |-> IdleUpd]
    /\ att = [c \in AttCalls |-> IdleAtt]
    /\ rc = IdleRc(Uids)

NextBoard ==
    \/ GetScoreboard
    \/ GetAndListStatus

SpecBoard == InitBoard /\ [][NextBoard]_vars

(* ----------------------- rendering specification --------------------- *)
\* the status record of a participant who attended and never submitted
AttendedOnly(uid) ==
    [uid |-> uid, accept |-> undefined, time |-> undefined, score |-> undefined,
     penaltyScore |-> undefined]

\* the status record updateStatus leaves for a journal: the sorted journal with the
\* snapshot of stat, or the journal alone when stat threw (lines 410-416)
StatusAfter(uid, t, journal) ==
    LET res == Stat(t, journal)
    IN IF res.threw
       THEN [uid |-> uid, journal |-> journal, accept |-> undefined,
             time |-> undefined, score |-> undefined, penaltyScore |-> undefined]
       ELSE [uid |-> uid, journal |-> journal, accept |-> res.accept,
             time |-> res.time, score |-> res.score,
             penaltyScore |-> res.penaltyScore, detail |-> res.detail]

\* the problem lists of the rendered contests
RenderPids == {<<>>, <<1>>, <<1, 2>>, <<2, 1>>}

\* contests with one of the problem lists; one participant has made up to maxLen
\* submissions, the others have only attended
RenderInit(pidLists, maxLen) ==
    /\ \E rule \in RuleNames, pids \in pidLists :
         tdoc = [StatContest(rule) EXCEPT !.pids = pids]
    /\ \E n \in 1..MaxDocs, k \in 1..MaxDocs, len \in 0..maxLen :
         /\ k <= n
         /\ \E ps \in [1..len -> StatAllPids], ss \in [1..len -> {0, MaxScore}] :
              board = [IdleBoard EXCEPT
                         !.tsdocs =
                            [i \in 1..n |->
                               IF i = k
                               THEN StatusAfter(i, tdoc,
                                                [e \in 1..len |->
                                                   StatEntry(e, e, ps[e], ss[e])])
                               ELSE AttendedOnly(i)]]
    /\ status = [u \in {1} |-> NoTsdoc]
    /\ order = <<>>
    /\ upd = <<>>
    /\ att = <<>>
    /\ rc = IdleRc({1})
    /\ statCall = NoStatCall
    /\ clock = NoClock
    /\ store = NoStore

\* a contest of two problems and journals of up to MaxJournal entries
InitRender == RenderInit({StatPids}, MaxJournal)

\* contests of no, one and two problems in either order, and journals of up to
\* NumUpdates entries
InitRenderLists == RenderInit(RenderPids, NumUpdates)

NextRender == GetScoreboard

SpecRender == InitRender /\ [][NextRender]_vars

SpecRenderLists == InitRenderLists /\ [][NextRender]_vars

(* ------------------------ recalc specification ----------------------- *)
\* the status record after the updateStatus calls of `entries`, run one after
\* another (lines 410-416): each appends, and writes the snapshot unless stat threw
RECURSIVE UpdatedBy(_, _, _)
UpdatedBy(t, doc, entries) ==
    IF entries = <<>> THEN doc
    ELSE LET pushed == revPushStatus(doc, Head(entries))
             journal == _getStatusJournal(pushed.journal)
             stats == Stat(t, journal)
         IN UpdatedBy(t,
                      IF stats.threw THEN pushed
                      ELSE UpdWrite(pushed, pushed.rev, journal, Snapshot(stats)),
                      Tail(entries))

\* the i-th submission of participant uid before the recalculation, on problem 1
EarlierEntry(uid, i, accept) ==
    [rid |-> [generationTime |-> i, id |-> 10 * uid + i], pid |-> 1,
     accept |-> accept, score |-> IF accept THEN MaxScore ELSE 0]

\* every participant has attended and made up to NumUpdates submissions; then
\* recalcStatus runs, next to one more updateStatus call
InitRecalc ==
    /\ \E rule \in RuleNames : tdoc = [Contest(rule) EXCEPT !.attend = NumUsers]
    /\ \E len \in [Uids -> 0..NumUpdates] :
         \E acc \in [Uids -> [1..NumUpdates -> BOOLEAN]] :
            status = [u \in Uids |->
                        UpdatedBy(tdoc, AttendStatus(NoTsdoc),
                                  [i \in 1..len[u] |-> EarlierEntry(u, i, acc[u][i])])]
    /\ order = [i \in 1..NumUsers |-> i]
    /\ upd = [c \in {1} |-> IdleUpd]
    /\ att = <<>>
    /\ rc = IdleRc(Uids)
    /\ board = IdleBoard
    /\ statCall = NoStatCall
    /\ clock = NoClock
    /\ store = NoStore

NextRecalc ==
    \/ \E c \in DOMAIN upd : UpdPush(c)
    \/ \E c \in DOMAIN upd : UpdSet(c)
    \/ RecalcRead
    \/ \E uid \in DOMAIN status : RecalcSet(uid)

SpecRecalc == InitRecalc /\ [][NextRecalc]_vars

\* recalcStatus is called again after the call before it has settled
\* (line 566: every write has been answered, or the loop has thrown)
RecalcAgain ==
    /\ rc.pc # "idle"
    /\ \A uid \in DOMAIN status : rc.task[uid].st # "pending"
    /\ rc.run < NumRecalcs
    /\ rc' = RecalcLoop(order, [IdleRc(DOMAIN status) EXCEPT !.run = rc.run + 1])
    /\ UNCHANGED <<tdoc, status, order, upd, att, board, statCall, clock, store>>

\* recalcStatus alone, called NumRecalcs times: no updateStatus runs next to it
NextRecalcOnly ==
    \/ RecalcRead
    \/ \E uid \in DOMAIN status : RecalcSet(uid)
    \/ RecalcAgain

SpecRecalcOnly == InitRecalc /\ [][NextRecalcOnly]_vars

(* ------------------- contest record specification ------------------- *)
\* document.TYPE_CONTEST, document.TYPE_HOMEWORK, and -1 for "either"
DocTypes == {"TYPE_CONTEST", "TYPE_HOMEWORK"}

AnyType == "-1"

\* the id of the stored record and an id no record has
Tids == {TheTid, "missing"}

\* rule names a caller may pass: the registered ones, the empty string, a name
\* RULES does not have, and a name RULES inherits from Object.prototype
RuleInputs == RuleNames \cup {"", "bogus", "constructor"}

\* this.RULES[rule]: the rule object, an inherited member, or undefined
RulesLookup(rule) ==
    IF rule \in RuleNames THEN "rule"
    ELSE IF rule = "constructor" THEN "inherited"
    ELSE "undefined"

NoDoc == [exists |-> FALSE, rule |-> "", beginAt |-> 0, endAt |-> 0]

\* the last call of add, edit or get: its tid, type and rule arguments, how it
\* ended, whether it wrote to the store, and the record it returned
NoCall ==
    [op |-> "none", tid |-> TheTid, type |-> "TYPE_CONTEST", rule |-> undefined,
     pc |-> "none", params |-> "", wrote |-> FALSE, result |-> NoDoc]

\* document.get(domainId, type, tid): the record of that type and id, or null
documentGet(docs, type, tid) == IF tid = TheTid THEN docs[type] ELSE NoDoc

\* document.set(domainId, type, tid, $set): the fields of $set replace the stored ones
documentSet(doc, set) ==
    [doc EXCEPT !.rule = IF set.rule = undefined THEN @ ELSE set.rule.v,
                !.beginAt = IF set.beginAt = undefined THEN @ ELSE set.beginAt.v,
                !.endAt = IF set.endAt = undefined THEN @ ELSE set.endAt.v]

\* $set.rule || tdoc.rule
EditRule(set, doc) == IF Falsy(set.rule) THEN doc.rule ELSE set.rule.v

\* lines 384-386: the rule of $set is looked up only when it is truthy
EditRuleRefused(set) ==
    ~Falsy(set.rule) /\ RulesLookup(set.rule.v) = "undefined"

\* a lookup of the contest type alone
GetTypesContestOnly(type) == IF type = AnyType THEN <<"TYPE_CONTEST">> ELSE <<type>>

\* lines 397-400: the types get asks the store for, in order
GetTypes(type) ==
    IF type = AnyType THEN <<"TYPE_CONTEST", "TYPE_HOMEWORK">> ELSE <<type>>

\* the first record found under the types, or null
RECURSIVE GetFirst(_, _, _)
GetFirst(docs, types, tid) ==
    IF types = <<>> THEN NoDoc
    ELSE IF documentGet(docs, Head(types), tid).exists
         THEN documentGet(docs, Head(types), tid)
         ELSE GetFirst(docs, Tail(types), tid)

\* add, lines 362-378, for a new id; titleOk is what validator.checkTitle and
\* checkContent make of the title and content
Add ==
    /\ \A ty \in DocTypes : ~store.docs[ty].exists
    /\ \E titleOk \in BOOLEAN, rule \in RuleInputs, beginAt \in 1..MaxTime,
          endAt \in 1..MaxTime, type \in DocTypes :
         LET call == [NoCall EXCEPT
                        !.op = "add", !.type = type, !.rule = Str(rule)]
         IN IF ~titleOk
            THEN store' = [store EXCEPT
                             !.call = [call EXCEPT !.pc = "ValidationError",
                                                   !.params = "title"]]
            ELSE IF RulesLookup(rule) = "undefined"
            THEN store' = [store EXCEPT
                             !.call = [call EXCEPT !.pc = "ValidationError",
                                                   !.params = "rule"]]
            ELSE IF beginAt >= endAt
            THEN store' = [store EXCEPT
                             !.call = [call EXCEPT !.pc = "ValidationError",
                                                   !.params = "beginAt,endAt"]]
            ELSE IF RulesLookup(rule) = "inherited"
            THEN store' = [store EXCEPT !.call = [call EXCEPT !.pc = "TypeError"]]
            ELSE store' = [store EXCEPT
                             !.docs[type] = [exists |-> TRUE, rule |-> rule,
                                             beginAt |-> beginAt, endAt |-> endAt],
                             !.call = [call EXCEPT !.pc = "returned",
                                                   !.wrote = TRUE]]
    /\ UNCHANGED <<tdoc, status, order, upd, att, rc, board, statCall, clock>>

\* edit, lines 380-391, with a $set of any of rule, beginAt and endAt
Edit ==
    \E tid \in Tids, type \in DocTypes,
       rule \in {undefined} \cup {Str(r) : r \in RuleInputs},
       beginAt \in {undefined} \cup {Num(n) : n \in 1..MaxTime},
       endAt \in {undefined} \cup {Num(n) : n \in 1..MaxTime} :
      LET set == [rule |-> rule, beginAt |-> beginAt, endAt |-> endAt]
          call == [NoCall EXCEPT !.op = "edit", !.tid = tid, !.type = type,
                                 !.rule = rule]
          doc == documentGet(store.docs, type, tid)
      IN /\ IF EditRuleRefused(set)
            THEN store' = [store EXCEPT
                             !.call = [call EXCEPT !.pc = "ValidationError",
                                                   !.params = "rule"]]
            ELSE IF ~doc.exists
            THEN store' = [store EXCEPT
                             !.call = [call EXCEPT !.pc = "ContestNotFoundError"]]
            ELSE IF RulesLookup(EditRule(set, doc)) # "rule"
            THEN store' = [store EXCEPT !.call = [call EXCEPT !.pc = "TypeError"]]
            ELSE store' = [store EXCEPT
                             !.docs[type] = documentSet(doc, set),
                             !.call = [call EXCEPT !.pc = "returned",
                                                   !.wrote = TRUE]]
         /\ UNCHANGED <<tdoc, status, order, upd, att, rc, board, statCall, clock>>

\* get, lines 393-403
Get ==
    \E tid \in Tids, type \in DocTypes \cup {AnyType} :
      LET found == GetFirst(store.docs, GetTypes(type), tid)
          call == [NoCall EXCEPT !.op = "get", !.tid = tid, !.type = type]
      IN /\ IF ~found.exists
            THEN store' = [store EXCEPT
                             !.call = [call EXCEPT !.pc = "ContestNotFoundError"]]
            ELSE store' = [store EXCEPT
                             !.call = [call EXCEPT !.pc = "returned",
                                                   !.result = found]]
         /\ UNCHANGED <<tdoc, status, order, upd, att, rc, board, statCall, clock>>

InitCrud ==
    /\ store = [pc |-> "ready", docs |-> [ty \in DocTypes |-> NoDoc], call |-> NoCall]
    /\ tdoc = Contest("acm")
    /\ status = [u \in {1} |-> NoTsdoc]
    /\ order = <<>>
    /\ upd = <<>>
    /\ att = <<>>
    /\ rc = IdleRc({1})
    /\ board = IdleBoard
    /\ statCall = NoStatCall
    /\ clock = NoClock

NextCrud == Add \/ Edit \/ Get

SpecCrud == InitCrud /\ [][NextCrud]_vars

(* ======================= properties: attendance ======================= *)
AttendCallsOf(uid) == {c \in DOMAIN att : att[c].pc # "idle" /\ att[c].uid = uid}

AttendWon(uid) ==
    {c \in AttendCallsOf(uid) : att[c].pc \in {"capped", "returned", "crashed"}}

NumAttended == Cardinality({u \in DOMAIN status : status[u].attend = 1})

AttendSettled == \A c \in DOMAIN att : att[c].pc # "capped"

\* C1: of the attend calls for one participant exactly one passes the capped
\* increment and every other one ends in ContestAlreadyAttendedError; the status
\* attend field is 0 or 1, and is 1 exactly when a call has passed
C1_AttendExactlyOnce ==
    \A u \in DOMAIN status :
        /\ status[u].attend \in {0, 1}
        /\ Cardinality(AttendWon(u)) = status[u].attend
        /\ AttendCallsOf(u) # {} => Cardinality(AttendWon(u)) = 1
        /\ \A c \in AttendCallsOf(u) \ AttendWon(u) :
               att[c].pc = "ContestAlreadyAttendedError"

\* two calls for the same participant have settled: one returned, one was rejected
C1_Witness ==
    \E c1, c2 \in DOMAIN att :
        /\ att[c1].uid = att[c2].uid
        /\ att[c1].pc = "returned"
        /\ att[c2].pc = "ContestAlreadyAttendedError"

\* C6: the contest's attend counter counts the attend calls that returned; with
\* every call settled and none crashed it is the number of attended participants
C6_CounterCountsAttended ==
    /\ tdoc.attend = Cardinality({c \in DOMAIN att : att[c].pc = "returned"})
    /\ (\A c \in DOMAIN att :
            att[c].pc \in {"idle", "returned", "ContestAlreadyAttendedError"})
        => tdoc.attend = NumAttended

\* every call has settled without a crash, one of them rejected
C6_Witness ==
    /\ \A c \in DOMAIN att : att[c].pc \in {"returned", "ContestAlreadyAttendedError"}
    /\ \E c \in DOMAIN att : att[c].pc = "ContestAlreadyAttendedError"
    /\ tdoc.attend = 1

NumCrashed == Cardinality({c \in DOMAIN att : att[c].pc = "crashed"})

\* C7 as stated: after a crash between the two steps the counter over-counts
C7_CrashOverCounts ==
    (NumCrashed > 0 /\ AttendSettled) => tdoc.attend > NumAttended

\* C7 amended: the counter never exceeds the number of attended participants, and
\* with the calls settled it falls short of it by one per crashed call
C7_CrashUnderCounts ==
    /\ tdoc.attend <= NumAttended
    /\ AttendSettled => tdoc.attend = NumAttended - NumCrashed

\* a call crashed between its two steps and the counter is short
C7_Witness ==
    /\ NumCrashed > 0
    /\ AttendSettled
    /\ tdoc.attend < NumAttended

(* ===================== properties: status updates ===================== *)
UpdAppended(c) == upd[c].pc \notin {"idle", "ContestNotFoundError"}

InJournal(e, journal) == \E i \in 1..Len(journal) : journal[i] = e

\* C2: a stat write of a call whose append was followed by another call's append to
\* the same record is rejected: the record is left as it is, with both entries
C2_StaleWriteRejected ==
    [][\A c \in DOMAIN upd :
         (/\ upd[c].pc = "pushed"
          /\ upd'[c].pc # "pushed"
          /\ ~UpdNotAttended(upd[c].attend)
          /\ ~Stat(tdoc, _getStatusJournal(upd[c].journal)).threw
          /\ \E c2 \in DOMAIN upd : /\ UpdAppended(c2)
                                  /\ upd[c2].uid = upd[c].uid
                                  /\ upd[c2].rev > upd[c].rev)
         => /\ upd'[c].pc = "rejected"
            /\ status' = status
            /\ \A c2 \in DOMAIN upd :
                 (UpdAppended(c2) /\ upd[c2].uid = upd[c].uid)
                 => InJournal(upd[c2].entry, status'[upd[c].uid].journal)]_vars

\* the first of two calls on one record was rejected after the second one's append
C2_Witness ==
    \E c, c2 \in DOMAIN upd :
        /\ upd[c].pc = "rejected"
        /\ UpdAppended(c2)
        /\ upd[c2].uid = upd[c].uid
        /\ upd[c2].rev > upd[c].rev
        /\ InJournal(upd[c].entry, status[upd[c].uid].journal)
        /\ InJournal(upd[c2].entry, status[upd[c].uid].journal)

\* what a step did to the status record of uid
StepAppended(uid) ==
    /\ Len(status'[uid].journal) = Len(status[uid].journal) + 1
    /\ status'[uid] = revPushStatus(status[uid],
                                    status'[uid].journal[Len(status'[uid].journal)])

StepAttended(uid) == status'[uid] = cappedIncStatus(status[uid])

StepCommitted(uid) ==
    status'[uid] # status[uid] /\ ~StepAppended(uid) /\ ~StepAttended(uid)

\* C3: a snapshot is committed only by a write holding the record's current
\* revision; the journal stored then is the journal the writer read, in submission
\* order, and the stats stored are the stats of that journal
C3_CommitMatchesJournal ==
    [][\A u \in DOMAIN status :
         StepCommitted(u) =>
            /\ status'[u].journal = _getStatusJournal(status[u].journal)
            /\ status'[u].stats = Snapshot(Stat(tdoc, status'[u].journal))
            /\ status'[u].rev = status[u].rev + 1
            /\ status'[u].attend = status[u].attend
            /\ \/ \E c \in DOMAIN upd : /\ upd[c].pc = "pushed"
                                      /\ upd[c].uid = u
                                      /\ upd[c].rev = status[u].rev
                                      /\ upd[c].journal = status[u].journal
               \/ /\ rc.task[u].st = "pending"
                  /\ rc.task[u].rev = status[u].rev
                  /\ rc.task[u].journal = status'[u].journal]_vars

\* an updateStatus write and a recalcStatus write have both been committed, and a
\* write that held an older revision has been turned away
C3_Witness ==
    /\ \E c \in DOMAIN upd : upd[c].pc = "written"
    /\ \E u \in DOMAIN status : rc.task[u].st = "written"
    /\ \E c \in DOMAIN upd : upd[c].pc = "rejected"

\* C4: a call whose appended-to record carries no attendance ends in
\* ContestNotAttendedError and writes nothing
C4_NotAttendedIsError ==
    [][\A c \in DOMAIN upd :
         /\ (upd[c].pc = "idle" /\ upd'[c].pc = "pushed")
            => upd'[c].attend = status[upd'[c].uid].attend
         /\ (upd[c].pc = "pushed" /\ upd[c].attend = 0 /\ upd'[c].pc # "pushed")
            => (upd'[c].pc = "ContestNotAttendedError" /\ status' = status)]_vars

\* a call for a participant that had not attended has failed
C4_Witness ==
    \E c \in DOMAIN upd :
        /\ upd[c].pc = "ContestNotAttendedError"
        /\ status[upd[c].uid].stats = NoStats

\* C5: every entry of a record's journal is in the journal after any step, and the
\* journal never gets shorter
C5_JournalAppendOnly ==
    [][\A u \in DOMAIN status :
         /\ Len(status'[u].journal) >= Len(status[u].journal)
         /\ \A i \in 1..Len(status[u].journal) :
                InJournal(status[u].journal[i], status'[u].journal)]_vars

\* a record holds two entries after a committed and a rejected write on it
C5_Witness ==
    \E u \in DOMAIN status :
        /\ Len(status[u].journal) = 2
        /\ status[u].stats.set
        /\ \/ \E c \in DOMAIN upd : upd[c].uid = u /\ upd[c].pc = "rejected"
           \/ rc.task[u].st = "rejected"

(* ======================== properties: ranking ========================= *)
\* tied as rank compares: the same score, or no score on either side
SameScore(a, b) == a.score = b.score

\* the first position of the maximal run of adjacent tied records that holds i
RunStart(docs, i) ==
    CHOOSE p \in 1..i :
        /\ \A k \in p..(i - 1) : SameScore(docs[k], docs[k + 1])
        /\ p > 1 => ~SameScore(docs[p - 1], docs[p])

OiDoc(uid, sc) ==
    [uid |-> uid, accept |-> undefined, time |-> undefined, score |-> Num(sc),
     penaltyScore |-> undefined]

RanksOf(rankedTsdocs) == [i \in 1..Len(rankedTsdocs) |-> rankedTsdocs[i][1]]

DocsOf(rankedTsdocs) == [i \in 1..Len(rankedTsdocs) |-> rankedTsdocs[i][2]]

\* C8: the ranked list holds one pair per record, in input order, and each record's
\* rank is the 1-based position of the first member of its run of tied neighbours;
\* scores 100,100,80,80,80,50 rank 1,1,3,3,3,6
C8_CompetitionRanking ==
    /\ board.sb.pc = "returned" =>
          /\ DocsOf(board.sb.ranked) = board.tsdocs
          /\ \A i \in 1..Len(board.tsdocs) :
                 board.sb.ranked[i][1] = RunStart(board.tsdocs, i)
    /\ RanksOf(Rank("oi", <<OiDoc(1, 100), OiDoc(2, 100), OiDoc(3, 80), OiDoc(4, 80),
                            OiDoc(5, 80), OiDoc(6, 50)>>))
          = <<1, 1, 3, 3, 3, 6>>

\* an OI scoreboard whose ranks jump over a tie: 1, 1, 3
C8_Witness ==
    /\ board.sb.pc = "returned"
    /\ tdoc.rule = "oi"
    /\ RanksOf(board.sb.ranked) = <<1, 1, 3>>

\* the first key of the rule's status-sort policy
PrimaryKey(rule) == statusSort(rule)[1][1]

\* the record holds a number under the rule's primary key
HasPrimary(rule, d) == d[PrimaryKey(rule)].t = "number"

\* C9 as stated: adjacent records (with a primary key) share a rank exactly when
\* they are equal on the rule's primary key
C9_TieOnPrimaryKey ==
    board.sb.pc = "returned" =>
        \A i \in 1..(Len(board.tsdocs) - 1) :
            (HasPrimary(tdoc.rule, board.tsdocs[i])
             /\ HasPrimary(tdoc.rule, board.tsdocs[i + 1]))
            => ((board.sb.ranked[i][1] = board.sb.ranked[i + 1][1])
                <=> (board.tsdocs[i][PrimaryKey(tdoc.rule)]
                        = board.tsdocs[i + 1][PrimaryKey(tdoc.rule)]))

\* C10 as stated, on the primary key (descending in every rule's policy): of the
\* records getScoreboard ranks, none with a strictly better primary key stands
\* below one with a worse key
C10_ScoreboardSorted ==
    board.sb.pc = "returned" =>
        \A i, k \in 1..Len(board.sb.ranked) :
            (/\ i < k
             /\ HasPrimary(tdoc.rule, board.sb.ranked[i][2])
             /\ HasPrimary(tdoc.rule, board.sb.ranked[k][2]))
            => board.sb.ranked[k][2][PrimaryKey(tdoc.rule)].v
                  <= board.sb.ranked[i][2][PrimaryKey(tdoc.rule)].v

(* ------------------------------ stat claims --------------------------- *)
\* a stat call of the given rule has been made
StatCalled(rule) == tdoc.rule = rule /\ statCall.pc \in {"called", "again"}

\* the positions of the entries of problem p
EntriesOf(journal, p) == {i \in 1..Len(journal) : journal[i].pid = p}

HasAccept(journal, p) == \E i \in EntriesOf(journal, p) : journal[i].accept

\* the position of the first accepted entry of problem p
FirstAccept(journal, p) ==
    CHOOSE i \in EntriesOf(journal, p) :
        /\ journal[i].accept
        /\ \A k \in EntriesOf(journal, p) : journal[k].accept => i <= k

RejectionsBefore(journal, p) ==
    Cardinality({k \in EntriesOf(journal, p) : k < FirstAccept(journal, p)})

SecondsSinceBegin(j) == j.rid.generationTime - FloorSec(tdoc.beginAt)

\* C11: for an ACM contest problem with k rejections before its first acceptance,
\* the detail entry has naccept = k and time = (acceptance instant - begin) + 20*60*k
C11_AcmPenaltyTime ==
    StatCalled("acm") =>
        \A p \in Elements(tdoc.pids) :
            HasAccept(statCall.journal, p) =>
                LET j == statCall.journal[FirstAccept(statCall.journal, p)]
                    k == RejectionsBefore(statCall.journal, p)
                IN \E n \in 1..Len(statCall.res.stats.detail) :
                      LET d == statCall.res.stats.detail[n]
                      IN /\ d.pid = p
                         /\ d.rid = j.rid
                         /\ d.naccept = Num(k)
                         /\ d.time = Num(SecondsSinceBegin(j) + 20 * 60 * k)

\* C12: the ACM accept total is the number of contest problems whose effective
\* entry is an acceptance, and the time total is the sum of the detail times of
\* the accepted entries only
C12_AcmTotals ==
    StatCalled("acm") =>
        LET detail == statCall.res.stats.detail
            accepted == {n \in 1..Len(detail) : detail[n].accept}
            RECURSIVE Sum(_)
            Sum(S) == IF S = {} THEN 0
                      ELSE LET n == CHOOSE x \in S : TRUE
                           IN detail[n].time.v + Sum(S \ {n})
        IN /\ statCall.res.stats.accept =
                Num(Cardinality({p \in Elements(tdoc.pids) :
                                    HasAccept(statCall.journal, p)}))
           /\ Cardinality(accepted) = statCall.res.stats.accept.v
           /\ statCall.res.stats.time =
                IF \A n \in accepted : detail[n].time.t = "number"
                THEN Num(Sum(accepted)) ELSE NaN

\* one problem accepted after a rejection, another one rejected only
C12_Witness ==
    /\ StatCalled("acm")
    /\ statCall.res.stats.accept = Num(1)
    /\ statCall.res.stats.time.t = "number"
    /\ statCall.res.stats.time.v > 20 * 60
    /\ \E n \in 1..Len(statCall.res.stats.detail) :
          /\ ~statCall.res.stats.detail[n].accept
          /\ statCall.res.stats.detail[n].time.t = "number"

\* the journal without the entries a problem got after its first acceptance
Pruned(journal) ==
    LET kept == {i \in 1..Len(journal) :
                   \A k \in 1..(i - 1) :
                      ~(journal[k].pid = journal[i].pid /\ journal[k].accept)}
        idx == KeysAscending(kept)
    IN [n \in 1..Len(idx) |-> journal[idx[n]]]

\* C13: the entries a problem gets after its first acceptance change nothing of
\* the ACM result: accept, time and detail are those of the journal without them
C13_AcmIgnoresAfterAccept ==
    StatCalled("acm") =>
        statCall.res = Outcome(acmStat(tdoc, Pruned(statCall.journal)))

\* a contest problem was submitted again after it was accepted
C13_Witness ==
    /\ StatCalled("acm")
    /\ \E i, k \in 1..Len(statCall.journal) :
          /\ i < k
          /\ statCall.journal[i].pid = statCall.journal[k].pid
          /\ Includes(tdoc.pids, statCall.journal[i].pid)
          /\ statCall.journal[i].accept
          /\ ~statCall.journal[k].accept

\* the position of the latest entry of problem p
LatestEntry(journal, p) ==
    CHOOSE i \in EntriesOf(journal, p) : \A k \in EntriesOf(journal, p) : k <= i

\* the contest problems that have an entry in the journal
Submitted(journal) == {p \in Elements(tdoc.pids) : EntriesOf(journal, p) # {}}

\* C14: for every contest problem with a journal entry, the OI detail[pid] is the
\* latest entry of that problem, and detail holds nothing else
C14_OiDetailIsLatest ==
    StatCalled("oi") =>
        /\ DOMAIN statCall.res.stats.detail = Submitted(statCall.journal)
        /\ \A p \in Submitted(statCall.journal) :
              statCall.res.stats.detail[p] =
                 statCall.journal[LatestEntry(statCall.journal, p)]

\* a contest problem has two entries of different score, the later one in detail
C14_Witness ==
    /\ StatCalled("oi")
    /\ \E i, k \in 1..Len(statCall.journal) :
          /\ i < k
          /\ statCall.journal[i].pid = statCall.journal[k].pid
          /\ statCall.journal[i].pid \in DOMAIN statCall.res.stats.detail
          /\ statCall.journal[i].score # statCall.journal[k].score
          /\ statCall.res.stats.detail[statCall.journal[k].pid].rid
                = statCall.journal[k].rid

\* the sum of the scores at a set of journal positions
RECURSIVE ScoreSum(_, _)
ScoreSum(journal, S) ==
    IF S = {} THEN 0
    ELSE LET i == CHOOSE x \in S : TRUE
         IN journal[i].score + ScoreSum(journal, S \ {i})

\* the sum of the scores held in an OI detail map
RECURSIVE DetailSum(_, _)
DetailSum(detail, S) ==
    IF S = {} THEN 0
    ELSE LET p == CHOOSE x \in S : TRUE
         IN detail[p].score + DetailSum(detail, S \ {p})

\* C15: the OI total score is the sum of the scores of all journal entries of
\* contest problems, every attempt counted, never less than the sum over detail
C15_OiScoreSumsAllEntries ==
    StatCalled("oi") =>
        /\ statCall.res.stats.score =
              Num(ScoreSum(statCall.journal,
                           {i \in 1..Len(statCall.journal) :
                               Includes(tdoc.pids, statCall.journal[i].pid)}))
        /\ statCall.res.stats.score.v >=
              DetailSum(statCall.res.stats.detail, DOMAIN statCall.res.stats.detail)

\* the total is greater than the sum of the scores in detail
C15_Witness ==
    /\ StatCalled("oi")
    /\ statCall.res.stats.score.v >
          DetailSum(statCall.res.stats.detail, DOMAIN statCall.res.stats.detail)

\* the state of homework.stat after its first loop (lines 216-223)
HomeworkLoop ==
    HomeworkFold(tdoc, statCall.journal, [effective |-> EmptyMap, threw |-> FALSE],
                 statCall.journal)

\* the first loop has retained an entry
HomeworkRetained == ~HomeworkLoop.threw /\ DOMAIN HomeworkLoop.effective # {}

\* C16: every entry the Assignment loop retains is returned in detail with its
\* penalty-adjusted score: the raw score times the multiplier of the highest
\* threshold reached since penaltySince, the raw score before it
C16_PenaltyAdjustedScore ==
    (StatCalled("homework") /\ HomeworkRetained) =>
        /\ ~statCall.res.threw
        /\ \A p \in DOMAIN HomeworkLoop.effective :
              \E n \in 1..Len(statCall.res.stats.detail) :
                 LET d == statCall.res.stats.detail[n]
                 IN /\ d.rid = HomeworkLoop.effective[p].rid
                    /\ d.penaltyScore =
                          Num(HomeworkPenaltyScore(tdoc, HomeworkLoop.effective[p]))

\* one term of a total: raw score, penalty-adjusted score (in hundredths), or
\* seconds since contest begin
TotalTerm(field, j) ==
    CASE field = "score" -> j.score
      [] field = "penaltyScore" -> HomeworkPenaltyScore(tdoc, j)
      [] field = "time" -> SecondsSinceBegin(j)

\* a total over the entries the first loop retained
RECURSIVE RetainedSum(_, _, _)
RetainedSum(effective, S, field) ==
    IF S = {} THEN 0
    ELSE LET p == CHOOSE x \in S : TRUE
         IN TotalTerm(field, effective[p]) + RetainedSum(effective, S \ {p}, field)

\* C17: the Assignment totals are the sums, over the effective entries, of the raw
\* scores, of the penalty-adjusted scores and of the seconds since contest begin
C17_AssignmentTotals ==
    (StatCalled("homework") /\ HomeworkRetained) =>
        LET eff == HomeworkLoop.effective
        IN /\ ~statCall.res.threw
           /\ Len(statCall.res.stats.detail) = Cardinality(DOMAIN eff)
           /\ statCall.res.stats.score = Num(RetainedSum(eff, DOMAIN eff, "score"))
           /\ statCall.res.stats.penaltyScore =
                 Num(RetainedSum(eff, DOMAIN eff, "penaltyScore"))
           /\ statCall.res.stats.time =
                 Num(RetainedSum(eff, DOMAIN eff, "time"))

\* the retain-until-accepted rule: the first accepted entry of each submitted
\* contest problem, its latest entry when none is accepted
RetainUntilAccepted(journal) ==
    [p \in Submitted(journal) |->
        journal[IF HasAccept(journal, p) THEN FirstAccept(journal, p)
                ELSE LatestEntry(journal, p)]]

\* C18: the Assignment loop selects the effective entries of the
\* retain-until-accepted rule, the ones the ACM loop selects
C18_AssignmentRetainsLikeAcm ==
    StatCalled("homework") =>
        /\ ~HomeworkLoop.threw
        /\ HomeworkLoop.effective = RetainUntilAccepted(statCall.journal)
        /\ HomeworkLoop.effective =
              AcmFold(tdoc, [effective |-> EmptyMap, naccept |-> EmptyMap],
                      statCall.journal).effective

\* the journal without the entries of problems outside the contest's list
ContestEntriesOnly(journal) ==
    LET kept == {i \in 1..Len(journal) : Includes(tdoc.pids, journal[i].pid)}
        idx == KeysAscending(kept)
    IN [n \in 1..Len(idx) |-> journal[idx[n]]]

\* C19: for every rule, the entries of problems outside the contest's list have no
\* effect: stat gives the same outcome on the journal without them
C19_ForeignEntriesIgnored ==
    statCall.pc \in {"called", "again"} =>
        statCall.res = Outcome(Stat(tdoc, ContestEntriesOnly(statCall.journal)))

C21_OngoingWindow ==
    clock.pc = "read" =>
        /\ clock.isOngoing <=> (tdoc.beginAt <= clock.at /\ clock.at < tdoc.endAt)
        /\ clock.at = tdoc.beginAt => clock.isOngoing
        /\ clock.at = tdoc.endAt => ~clock.isOngoing

\* the predicate was read at the end instant, after a read at begin would be true
C21_Witness ==
    /\ clock.pc = "read"
    /\ clock.at = tdoc.endAt
    /\ ~clock.isOngoing
    /\ isOngoing(tdoc, tdoc.beginAt)

\* C22: for ACM and OI, showRecord and showScoreboard are true exactly when
\* now > end; for Assignment both are always true
C22_VisibilityByRule ==
    clock.pc = "read" =>
        IF tdoc.rule \in {"acm", "oi"}
        THEN /\ clock.showRecord <=> clock.at > tdoc.endAt
             /\ clock.showScoreboard <=> clock.at > tdoc.endAt
        ELSE clock.showRecord /\ clock.showScoreboard

(* -------------------------- scoreboard claims -------------------------- *)
Hidden == board.sb.pc = "ContestScoreboardHiddenError"

\* C23: getScoreboard fails with ContestScoreboardHiddenError, having read no
\* status record, exactly when the rule's showScoreboard is false at the instant of
\* the call and the caller lacks the view-hidden-scoreboard permission; otherwise
\* it returns the rows rendered from the ranked status records
C23_HiddenScoreboard ==
    board.sb.pc # "idle" =>
        /\ Hidden <=> (~showScoreboard(tdoc, board.sb.now) /\ ~board.sb.canViewHidden)
        /\ Hidden => ~board.sb.read /\ board.sb.rows = <<>>
        /\ ~Hidden =>
              /\ board.sb.pc = "returned"
              /\ board.sb.read
              /\ board.sb.rows =
                    Scoreboard(board.sb.isExport, tdoc, Rank(tdoc.rule, board.tsdocs))

\* a call on participants' records at the end instant of an OI contest, refused
C23_Witness ==
    /\ Hidden
    /\ tdoc.rule = "oi"
    /\ board.sb.now = tdoc.endAt
    /\ Len(board.tsdocs) >= 2
    /\ ~board.sb.read

\* C24: the export and the interactive scoreboard of the same contest and ranked
\* list have one header row and one row per ranked record, in the same order, and
\* the same rank cell in every row
C24_ExportAndInteractiveAgree ==
    board.sb.pc = "returned" =>
        LET rows == board.sb.rows
            other == Scoreboard(~board.sb.isExport, tdoc, board.sb.ranked)
        IN /\ Len(rows) = 1 + Len(board.sb.ranked)
           /\ Len(other) = Len(rows)
           /\ rows[1][1] = other[1][1]
           /\ \A i \in 1..Len(board.sb.ranked) :
                 /\ rows[i + 1][1] = other[i + 1][1]
                 /\ rows[i + 1][1].value = Num(board.sb.ranked[i][1])
                 /\ rows[i + 1][2] = other[i + 1][2]
                 /\ rows[i + 1][2].raw = Num(board.sb.ranked[i][2].uid)

\* an export of three participants, one of them with a journal
C24_Witness ==
    /\ board.sb.pc = "returned"
    /\ board.sb.isExport
    /\ Len(board.sb.rows) = 4
    /\ \E i \in 1..3 : JournalOf(board.sb.ranked[i][2]) # <<>>
    /\ \E i \in 1..3 : JournalOf(board.sb.ranked[i][2]) = <<>>

\* the cells before the per-problem cells of a row
LeadCells(rule, isExport) ==
    CASE rule = "acm" -> IF isExport THEN 5 ELSE 3
      [] rule = "oi" -> 3
      [] rule = "homework" -> IF isExport THEN 6 ELSE 4

\* a cell value that is "-" or a text made of "-" only
CarriesPlaceholder(value) ==
    \/ value = Str("-")
    \/ /\ value.t = "format"
       /\ value.v # <<>>
       /\ \A k \in 1..Len(value.v) : value.v[k] = Str("-")

NoJournalNoDetail(tsdoc) == JournalOf(tsdoc) = <<>> /\ DetailOf(tsdoc) = <<>>

\* C25: in both modes of every rule, a participant whose status record has no
\* journal and no detail is rendered as a row whose totals are 0 and whose
\* per-problem cells all carry the placeholder "-"
C25_NoJournalRendered ==
    board.sb.pc = "returned" =>
        \A i \in 1..Len(board.sb.ranked) :
           NoJournalNoDetail(board.sb.ranked[i][2]) =>
              LET row == board.sb.rows[i + 1]
                  lead == LeadCells(tdoc.rule, board.sb.isExport)
              IN /\ Len(row) >= lead + Len(tdoc.pids)
                 /\ \A c \in 3..lead :
                       row[c].value \in {Num(0), formatSeconds(Num(0))}
                 /\ \A c \in (lead + 1)..Len(row) : CarriesPlaceholder(row[c].value)

\* an interactive board with a participant who never submitted next to one who did
C25_Witness ==
    /\ board.sb.pc = "returned"
    /\ ~board.sb.isExport
    /\ \E i \in 1..Len(board.sb.ranked) : "journal" \notin DOMAIN board.sb.ranked[i][2]
    /\ \E i \in 1..Len(board.sb.ranked) : Len(JournalOf(board.sb.ranked[i][2])) >= 2

(* ------------------------ contest record claims ------------------------ *)
Stored == {store.docs[ty] : ty \in {ty \in DocTypes : store.docs[ty].exists}}

Writer == store.call.op \in {"add", "edit"}

\* C26: add and edit both refuse a record with beginAt >= endAt before they
\* write, so every stored contest record has beginAt < endAt
C26_BeginBeforeEnd == \A d \in Stored : d.beginAt < d.endAt

\* C27: every stored contest record's rule is acm, oi or homework, and an add or
\* an edit given another rule name fails with ValidationError and writes nothing
C27_RuleRegistered ==
    /\ \A d \in Stored : d.rule \in RuleNames
    /\ Writer /\ store.call.rule # undefined
          /\ store.call.rule.v \notin RuleNames =>
          store.call.pc = "ValidationError" /\ ~store.call.wrote

FoundUnder(type) == store.call.tid = TheTid /\ store.docs[type].exists

\* C28: get with type -1 returns the record of the contest type, else the record
\* of the homework type, and fails with ContestNotFoundError only when neither
\* exists; with an explicit type it fails with ContestNotFoundError exactly when
\* no record of that type has the id, and returns that record otherwise
C28_GetResolves ==
    store.call.op = "get" =>
        /\ store.call.pc \in {"returned", "ContestNotFoundError"}
        /\ IF store.call.type = AnyType
           THEN /\ store.call.pc = "ContestNotFoundError" <=>
                      ~FoundUnder("TYPE_CONTEST") /\ ~FoundUnder("TYPE_HOMEWORK")
                /\ FoundUnder("TYPE_CONTEST") =>
                      store.call.result = store.docs["TYPE_CONTEST"]
                /\ ~FoundUnder("TYPE_CONTEST") /\ FoundUnder("TYPE_HOMEWORK") =>
                      store.call.result = store.docs["TYPE_HOMEWORK"]
           ELSE /\ store.call.pc = "ContestNotFoundError" <=>
                      ~FoundUnder(store.call.type)
                /\ FoundUnder(store.call.type) =>
                      store.call.result = store.docs[store.call.type]

\* a get of type -1 that returned the record stored under the homework type
C28_Witness ==
    /\ store.call.op = "get"
    /\ store.call.type = AnyType
    /\ store.call.pc = "returned"
    /\ ~store.docs["TYPE_CONTEST"].exists
    /\ store.call.result = store.docs["TYPE_HOMEWORK"]
    /\ store.call.result.exists

(* --------------------------- recalcStatus claims ----------------------- *)
\* recalcStatus has read the status records and run its loop in this step
RecalcHasRead == rc.pc = "idle" /\ rc'.pc # "idle"

\* C29: a failure for one participant in recalcStatus, an aggregator error or a
\* rejected conditional write, does not keep any other participant from its
\* recompute-and-write: once the records are read, every participant with a journal
\* that the aggregator accepts has its write issued, and a rejected write leaves
\* the other writes as they were
C29_RecalcIndependent ==
    [][/\ RecalcHasRead =>
             \A uid \in DOMAIN status :
                /\ status[uid].journal # <<>>
                /\ ~Stat(tdoc, _getStatusJournal(status[uid].journal)).threw
                => rc'.task[uid].st = "pending"
       /\ \A uid \in DOMAIN status :
             rc.task[uid].st = "pending" /\ rc'.task[uid].st = "rejected" =>
                \A other \in DOMAIN status \ {uid} : rc'.task[other] = rc.task[other]
      ]_vars

(* ------------------------- journal order claims ------------------------ *)
\* the orders in which the entries of a journal can have been appended
InsertionOrders(journal) ==
    {[i \in 1..Len(journal) |-> journal[p[i]]] :
        p \in {q \in [1..Len(journal) -> 1..Len(journal)] :
                 \A i, k \in 1..Len(journal) : q[i] = q[k] => i = k}}

\* C30: the snapshot that updateStatus and recalcStatus store depends on the set
\* of journal entries and the contest only: whatever the order the same entries were
\* appended in, entries of equal creation instant included, sorting by creation
\* instant and applying stat gives the stats that were stored
C30_InsertionOrderIrrelevant ==
    [][\A u \in DOMAIN status :
         StepCommitted(u) =>
            \A journal \in InsertionOrders(status'[u].journal) :
               Snapshot(Stat(tdoc, _getStatusJournal(journal))) = status'[u].stats
      ]_vars

(* ------------------------ first-try acceptance claim ------------------- *)
\* the first entry of problem p in the journal is an acceptance
AcceptedFirstTry(journal, p) ==
    /\ HasAccept(journal, p)
    /\ RejectionsBefore(journal, p) = 0

\* C31: an ACM contest problem accepted on its first submission has rejection
\* count 0 and time (acceptance instant - begin) in seconds, with no penalty, and
\* the participant's total time is a number
C31_AcmFirstTry ==
    StatCalled("acm") =>
        /\ \A p \in Elements(tdoc.pids) :
              AcceptedFirstTry(statCall.journal, p) =>
                 LET j == statCall.journal[FirstAccept(statCall.journal, p)]
                 IN \E n \in 1..Len(statCall.res.stats.detail) :
                       LET d == statCall.res.stats.detail[n]
                       IN /\ d.pid = p
                          /\ d.naccept = Num(0)
                          /\ d.time = Num(SecondsSinceBegin(j))
        /\ statCall.res.stats.time.t = "number"

(* ------------------------ quiescent consistency ------------------------ *)
\* no updateStatus call and no recalcStatus write on the record of uid is in flight
Quiescent(uid) ==
    /\ \A c \in DOMAIN upd : upd[c].pc = "pushed" => upd[c].uid # uid
    /\ rc.task[uid].st # "pending"

\* C32: for an attended participant, once every updateStatus and recalcStatus call
\* on the participant's record has finished, the stored snapshot is the stat of the
\* whole stored journal in creation order: no appended entry is left out of it
C32_QuiescentConsistency ==
    \A u \in DOMAIN status :
       status[u].attend >= 1 /\ status[u].journal # <<>> /\ Quiescent(u) =>
          LET res == Stat(tdoc, _getStatusJournal(status[u].journal))
          IN /\ status[u].stats.set
             /\ ~res.threw => status[u].stats = Snapshot(res)

(* ------------------------ failed updateStatus claim -------------------- *)
\* the updateStatus call c fails in this step
UpdFails(c) ==
    /\ upd'[c].pc \in {"ContestNotAttendedError", "ContestNotFoundError"}
    /\ upd[c].pc # upd'[c].pc

\* C33: when updateStatus fails with ContestNotAttendedError or with
\* ContestNotFoundError, the call has appended no journal entry and has not advanced
\* the revision: the participant's status record is as it was before the call
C33_FailedUpdateLeavesRecord ==
    [][\A c \in DOMAIN upd :
         UpdFails(c) =>
            /\ status' = status
            /\ upd'[c].pc = "ContestNotAttendedError" =>
                  /\ ~InJournal(upd'[c].entry, status'[upd'[c].uid].journal)
                  /\ status'[upd'[c].uid].rev < upd'[c].rev
      ]_vars

(* ------------------------- recalcStatus idempotence -------------------- *)
\* a write of recalcStatus for uid is committed in this step
RecalcCommitted(uid) == rc.task[uid].st = "pending" /\ rc'.task[uid].st = "written"

\* C34: with the contest unchanged and no updateStatus running, a write of
\* recalcStatus leaves the participant's journal, attend flag and stats as the last
\* updateStatus stored them, in the first run and in a second one, and a status
\* record without a journal gets no write
C34_RecalcIdempotent ==
    [][\A u \in DOMAIN status :
         /\ RecalcCommitted(u) =>
               /\ status'[u].journal = status[u].journal
               /\ status'[u].attend = status[u].attend
               /\ status'[u].stats = status[u].stats
         /\ status[u].journal = <<>> =>
               /\ rc'.task[u].st = "none"
               /\ status'[u] = status[u]
      ]_vars

\* a second run has rewritten the record of a participant with two entries, next to
\* a participant without a journal
C34_Witness ==
    /\ rc.run = 2
    /\ \E u \in DOMAIN status :
          /\ rc.task[u].st = "written"
          /\ Len(status[u].journal) >= 2
          /\ status[u].stats.set
    /\ \E u \in DOMAIN status : status[u].journal = <<>> /\ rc.task[u].st = "none"

(* --------------------------- lifecycle order --------------------------- *)
\* the place of a getStatusText result in not_started -> ongoing -> finished
Phase(text) ==
    CASE text = "none" -> 0
      [] text = "not_started" -> 1
      [] text = "ongoing" -> 2
      [] text = "finished" -> 3

OneOf(a, b, c) == (a /\ ~b /\ ~c) \/ (~a /\ b /\ ~c) \/ (~a /\ ~b /\ c)

GetStatusTextReturned == clock.text.fn = "getStatusText" /\ clock.text.pc = "returned"

\* C35: for a contest with begin < end, at every instant exactly one of
\* isNotStarted, isOngoing and isDone is true; getStatusText never goes back in
\* not_started -> ongoing -> finished from one call to the next, and it gives
\* finished exactly when end <= now
C35_LifecycleForward ==
    /\ clock.pc = "read" => OneOf(clock.isNotStarted, clock.isOngoing, clock.isDone)
    /\ Phase(clock.text.before) <= Phase(clock.text.last)
    /\ GetStatusTextReturned =>
          (clock.text.result = "finished" <=> tdoc.endAt <= clock.text.at)
    /\ clock.pc = "read" =>
          (clock.getStatusText = "finished" <=> tdoc.endAt <= clock.at)

\* a call that found the contest ongoing is followed by one that finds it finished
C35_Witness ==
    /\ GetStatusTextReturned
    /\ clock.text.before = "ongoing"
    /\ clock.text.last = "finished"
    /\ clock.text.at = tdoc.endAt

(* --------------------------- before the begin -------------------------- *)
\* C36: at every instant before begin exactly one of isNew and isUpcoming is true,
\* the instant one day before begin included, so statusText is 'New' or 'Ready'
\* there and never 'Done'; statusText is 'Done' only when end <= now
C36_NewOrReadyBeforeBegin ==
    /\ clock.pc = "read" /\ clock.at < tdoc.beginAt =>
          /\ clock.isNew # clock.isUpcoming
          /\ clock.statusText \in {"New", "Ready"}
    /\ clock.pc = "read" /\ clock.statusText = "Done" => tdoc.endAt <= clock.at
    /\ clock.text.fn = "statusText" /\ clock.text.pc = "returned"
          /\ clock.text.result = "Done" => tdoc.endAt <= clock.text.at

(* ----------------------------- row shape ------------------------------- *)
\* the cells of one problem in a row
ProblemCells(rule, isExport) ==
    CASE rule = "acm" -> IF isExport THEN 3 ELSE 1
      [] rule = "oi" -> 1
      [] rule = "homework" -> IF isExport THEN 4 ELSE 1

\* the cells from..to of a row
Cells(row, from, to) == [k \in 1..(to - from + 1) |-> row[from + k - 1]]

\* the row of the same record on a contest whose only problem is pid
RowOfProblem(isExport, pid, rankedTsdoc) ==
    Scoreboard(isExport, [tdoc EXCEPT !.pids = <<pid>>], <<rankedTsdoc>>)[2]

\* C37: every participant row has as many cells as the header row: 3+n
\* (interactive) and 5+3n (export) for ACM, 3+n for OI, 4+n and 6+4n for
\* Assignment, n being the number of contest problems; the cells of the problems
\* follow in the order of the contest's problem list
C37_RowsMatchHeader ==
    board.sb.pc = "returned" =>
        LET rows == board.sb.rows
            n == Len(tdoc.pids)
            lead == LeadCells(tdoc.rule, board.sb.isExport)
            per == ProblemCells(tdoc.rule, board.sb.isExport)
        IN /\ Len(rows[1]) = lead + per * n
           /\ \A i \in 1..Len(board.sb.ranked) :
                 /\ Len(rows[i + 1]) = Len(rows[1])
                 /\ \A k \in 1..n :
                       Cells(rows[i + 1], lead + per * (k - 1) + 1, lead + per * k)
                       = Cells(RowOfProblem(board.sb.isExport, tdoc.pids[k],
                                            board.sb.ranked[i]),
                               lead + 1, lead + per)

\* an export of a contest whose problem list is not ascending, with a participant
\* who has an entry on its first problem only
C37_Witness ==
    /\ board.sb.pc = "returned"
    /\ board.sb.isExport
    /\ tdoc.pids = <<2, 1>>
    /\ \E i \in 1..Len(board.sb.ranked) :
          LET journal == JournalOf(board.sb.ranked[i][2])
          IN /\ journal # <<>>
             /\ \A e \in 1..Len(journal) : journal[e].pid = 2
             /\ journal[Len(journal)].accept

\* C38: the Assignment stat is total: for every journal it returns totals score,
\* penaltyScore and time that are numbers, and raises no error
C38_AssignmentStatTotal ==
    StatCalled("homework") =>
        /\ ~statCall.res.threw
        /\ statCall.res.stats.set
        /\ statCall.res.stats.score.t = "number"
        /\ statCall.res.stats.penaltyScore.t = "number"
        /\ statCall.res.stats.time.t = "number"

====
